---- MODULE Spec2Model ----
(***************************************************************************)
(* Deletion monitor of imessage-undeleter: Config::start and the functions *)
(* it drives (snapshot differ, attachment staging, archival writer),       *)
(* together with Message::is_fully_unsent from imessage-database.          *)
(***************************************************************************)
EXTENDS Integers, Sequences, FiniteSets, TLC

\* ------------------------------------------------------------------ bounds
\* most attachments staged in one run
MaxNum == 2
\* most deletion records in the log
MaxRecords == 2
\* longest file name handed to sanitize_filename
MaxNameLen == 3
\* most entries of the `otr` dictionary of a message_summary_info
MaxParts == 2
\* most entries of the `ec` dictionary
MaxEc == 2
\* most entries of the `rp` array
MaxRp == 2
\* entries of the `$objects` table of a keyed archive
MaxObjects == 3

\* The row ids of the observed window
RowIds == {101}

\* ------------------------------------------------------------ data domains
\* EditStatus (edited.rs)
EditStatus == {"Original", "Edited", "Unsent"}

\* Option<T>: None is the empty sequence, Some(x) the sequence of x alone.
None == << >>
Some(x) == <<x>>

\* The messages the snapshots are drawn from (edited_parts after
\* generate_text, and text):
\*   a plain message, a message whose text is a single space, Deleted.plist
\*   (rp = [0]), an EditedMessage with zero parts (empty `otr`),
\*   EditedToLink.plist, EditedAndUnsent.plist
Msg(parts, text) == [edited_parts |-> parts, text |-> text]

Message ==
  { Msg(None, Some("Hello")),
    Msg(None, Some(" ")),
    Msg(Some(<<"Unsent">>), None),
    Msg(Some(<< >>), None),
    Msg(Some(<<"Original", "Original", "Edited">>), Some("Hello")),
    Msg(Some(<<"Original", "Original", "Edited", "Unsent">>), Some("Hello")) }

\* An attachment row is represented by the extension of its file name
\* ("" when Attachment::extension() is None).
Exts == {"", "jpg"}

\* The attachment lists of the messages in the snapshots
AttDomain == { << >>, <<"jpg">>, <<"">>, <<"jpg", "jpg">>, <<"jpg", "">> }

\* What AttachmentManager::handle_attachment meets for one attachment.
CopyOutcomes == {"ok", "missing", "copyerr"}

\* Directories under the export root
ATTACHMENTS_DIR == "attachments"
TMP_DIR == "attachments/tmp"

\* A path is a directory and a file name made of an integer base name and an
\* extension.
Path(dir, n, ext) == [dir |-> dir, n |-> n, ext |-> ext]

VARIABLES
  pc,        \* position of the program: stopped or an exit cause, ready,
             \* poll, rows, del
  last,      \* last_messages : row id -> [msg, paths]
  newmap,    \* new_messages_with_attachments of the running cycle
  minNum,    \* min_attachment_number
  files,     \* the files under the export root (archive and staging)
  log,       \* the lines of LOGFILE.html
  cur,       \* the deletion event handle_deleted_message is working on
  events,    \* the events emitted in the running cycle:
             \* row id -> [kind, paths]
  dirs,      \* the directories that exist under the export root
  call       \* a call of a library function: its name, argument and result

vars == <<pc, last, newmap, minNum, files, log, cur, events, dirs, call>>

EmptyMap == [r \in {} |-> 0]
NoMessage == Msg(None, None)
NoCur == [row |-> 0, new |-> NoMessage, old |-> NoMessage, paths |-> << >>,
          i |-> 0, phase |-> "none"]
NoCall == [fn |-> "none", arg |-> << >>, ret |-> << >>]

\* --------------------------------------------------------- pure functions

\* is_fully_unsent with `any` in place of `all`
is_any_unsent(m) ==
  /\ m.edited_parts # None
  /\ LET ep == m.edited_parts[1]
     IN \E i \in 1..Len(ep) : ep[i] = "Unsent"

\* Message::is_fully_unsent
is_fully_unsent(m) ==
  /\ m.edited_parts # None
  /\ LET ep == m.edited_parts[1]
     IN \A i \in 1..Len(ep) : ep[i] = "Unsent"

\* the rename target left in the staging directory
ArchivePathInTmp(p) == Path(TMP_DIR, p.n, p.ext)

\* PathBuf::file_name followed by push onto the canonical archive directory
ArchivePath(p) == Path(ATTACHMENTS_DIR, p.n, p.ext)

\* the probe started from zero whatever the number handed in
find_min_from_zero(start, fs) ==
  CHOOSE n \in 0..Cardinality(fs) :
    /\ Path(ATTACHMENTS_DIR, n, "") \notin fs
    /\ \A k \in 0..(n - 1) : Path(ATTACHMENTS_DIR, k, "") \in fs

\* Config::find_min_attachment_number
RECURSIVE find_min_attachment_number(_, _)
find_min_attachment_number(start, fs) ==
  IF Path(ATTACHMENTS_DIR, start, "") \in fs
  THEN find_min_attachment_number(start + 1, fs)
  ELSE start

\* AttachmentManager::handle_attachment for one attachment with extension
\* ext, staged under base name n.  The result is the copied_path (a one
\* element sequence, empty when none), the files afterwards and whether the
\* call returned None.
handle_attachment(ext, n, outcome, fs) ==
  LET to == Path(TMP_DIR, n, ext) IN
  IF outcome = "missing"
  THEN [copied |-> << >>, files |-> fs, none |-> TRUE]
  ELSE IF to \in fs
  THEN [copied |-> <<to>>, files |-> fs, none |-> FALSE]
  ELSE IF outcome = "ok"
  THEN [copied |-> <<to>>, files |-> fs \cup {to}, none |-> FALSE]
  ELSE [copied |-> <<to>>, files |-> fs, none |-> FALSE]

\* Config::save_attachments_locally: the fold over the attachments from
\* index i on.  A None from handle_attachment is unwrapped and panics.
RECURSIVE save_attachments_locally(_, _, _, _, _, _)
save_attachments_locally(atts, outcomes, i, min, dests, fs) ==
  IF i > Len(atts)
  THEN [dests |-> dests, min |-> min, files |-> fs, panicked |-> FALSE]
  ELSE LET h == handle_attachment(atts[i], min, outcomes[i], fs) IN
       IF h.none
       THEN [dests |-> dests, min |-> min, files |-> fs, panicked |-> TRUE]
       ELSE save_attachments_locally(atts, outcomes, i + 1,
              find_min_attachment_number(min + 1, h.files),
              dests \o h.copied, h.files)

\* The lines handle_deleted_message writes before the attachment loop
NoPath == Path("", 0, "")
Line(kind, text, path) == [kind |-> kind, text |-> text, path |-> path]

\* "<h2>===sender:time</h2>", "<p>Text: ..</p><br>", "<p>Attachments:</p><br>"
HeaderLines(m) ==
  << Line("h2", "", NoPath) >>
  \o (IF m.text # None /\ m.text[1] # " "
      THEN << Line("text", m.text[1], NoPath) >>
      ELSE << >>)
  \o << Line("atts", "", NoPath) >>

\* "<img src=.. style='width:300px'><br>"
ImgLine(p) == Line("img", "", p)

NumRecords(l) == Cardinality({i \in 1..Len(l) : l[i].kind = "h2"})

\* ----------------------------------------------------------------- state

Init ==
  /\ pc = "stopped"
  /\ last = EmptyMap
  /\ newmap = EmptyMap
  /\ minNum = 0
  /\ files = {}
  /\ log = << >>
  /\ cur = NoCur
  /\ events = EmptyMap
  /\ dirs = {}
  /\ call = NoCall

\* The memory of the process is gone once it has exited.
Exit(how) ==
  /\ pc' = how
  /\ last' = EmptyMap
  /\ newmap' = EmptyMap
  /\ minNum' = 0
  /\ cur' = NoCur
  /\ events' = EmptyMap

Running == pc \in {"ready", "poll", "rows", "del"}

\* How start can end: an Err returned through `?`, or a panic
ExitCauses ==
  {"err_row_decode", "err_attachment_query", "panic_attachment",
   "err_rename", "err_log_write"}

\* the log opened with truncate(true)
OpenLogTruncate(l) == << >>

\* OpenOptions::new().write(true).append(true).create(true).open(..)
OpenLog(l) == l

\* The staging clear left out of the startup sequence
ClearStagingKeep(fs) == fs

\* remove_dir_all of the staging directory, then create_dir_all
ClearStaging(fs) == {f \in fs : f.dir # TMP_DIR}

\* create_dir_all of the archive directory and of the staging directory
CreateDirs(ds) == ds \cup {ATTACHMENTS_DIR, TMP_DIR}

\* HashMap::insert into new_messages_with_attachments
Tracked(m, paths) == [msg |-> m, paths |-> paths]
Insert(map, r, v) == [x \in DOMAIN map \cup {r} |-> IF x = r THEN v ELSE map[x]]
Remove(map, r) == [x \in DOMAIN map \ {r} |-> map[x]]

\* ---------------------------------------------------------------- actions

\* Config::start up to the loop (runtime.rs 381-409)
Startup ==
  /\ ~Running
  /\ files' = ClearStaging(files)
  /\ last' = EmptyMap
  /\ newmap' = EmptyMap
  /\ minNum' = find_min_attachment_number(0, files')
  /\ log' = OpenLog(log)
  /\ cur' = NoCur
  /\ events' = EmptyMap
  /\ dirs' = CreateDirs(dirs)
  /\ pc' = "ready"
  /\ UNCHANGED call

\* TXT::iter_messages returns the rows of the snapshot
IterMessages ==
  /\ pc \in {"ready", "poll"}
  /\ pc' = "rows"
  /\ events' = EmptyMap
  /\ UNCHANGED <<last, newmap, minNum, files, log, cur>>
  /\ UNCHANGED <<dirs, call>>

\* Message::extract fails on a row: iter_messages returns the error and
\* start propagates it with `?`
IterMessagesFail ==
  /\ pc \in {"ready", "poll"}
  /\ Exit("err_row_decode")
  /\ UNCHANGED <<files, log>>
  /\ UNCHANGED <<dirs, call>>

\* Attachment::from_message fails for the visited row: propagated with `?`
AttachmentQueryFail(r) ==
  /\ pc = "rows"
  /\ r \notin DOMAIN newmap
  /\ Exit("err_attachment_query")
  /\ UNCHANGED <<files, log>>
  /\ UNCHANGED <<dirs, call>>

\* the decision without the test of the previous message
IsDeletionNewOnly(new, old) == is_fully_unsent(new)

\* The differ's decision for a row found in last_messages
IsDeletion(new, old) == is_fully_unsent(new) /\ ~is_fully_unsent(old)

\* the new message handed over in place of the stored one
DeletedArgsNew(r, m) == [old |-> m, paths |-> last[r].paths]

\* The arguments start hands to handle_deleted_message
DeletedArgs(r, m) == [old |-> last[r].msg, paths |-> last[r].paths]

Event(kind, paths) == [kind |-> kind, paths |-> paths]

\* Body of the loop over new_messages for a row that is in last_messages
VisitTracked(r, m) ==
  /\ pc = "rows"
  /\ r \notin DOMAIN newmap
  /\ r \in DOMAIN last
  /\ last' = Remove(last, r)
  /\ IF IsDeletion(m, last[r].msg)
     THEN /\ NumRecords(log) < MaxRecords
          /\ pc' = "del"
          /\ cur' = [row |-> r, new |-> m, old |-> DeletedArgs(r, m).old,
                     paths |-> DeletedArgs(r, m).paths, i |-> 1, phase |-> "hdr"]
          /\ events' = Insert(events, r, Event("deleted", DeletedArgs(r, m).paths))
          /\ UNCHANGED newmap
     ELSE /\ newmap' = Insert(newmap, r, Tracked(m, last[r].paths))
          /\ UNCHANGED <<pc, cur, events>>
  /\ UNCHANGED <<minNum, files, log>>
  /\ UNCHANGED <<dirs, call>>

\* Body of the loop over new_messages for a row that is not in last_messages
VisitNew(r, m, atts, outcomes) ==
  /\ pc = "rows"
  /\ r \notin DOMAIN newmap
  /\ r \notin DOMAIN last
  /\ LET res == IF Len(atts) > 0
                THEN save_attachments_locally(atts, outcomes, 1, minNum, << >>, files)
                ELSE [dests |-> << >>, min |-> minNum, files |-> files,
                      panicked |-> FALSE]
     IN /\ res.min <= MaxNum
        /\ files' = res.files
        /\ IF res.panicked
           THEN Exit("panic_attachment")
           ELSE /\ newmap' = Insert(newmap, r, Tracked(m, res.dests))
                /\ minNum' = res.min
                /\ UNCHANGED <<pc, last, cur, events>>
  /\ UNCHANGED log
  /\ UNCHANGED <<dirs, call>>

\* handle_deleted_message: the writes before the attachment loop
DelHeader ==
  /\ pc = "del" /\ cur.phase = "hdr"
  /\ log' = log \o HeaderLines(cur.old)
  /\ cur' = [cur EXCEPT !.phase = IF Len(cur.paths) = 0 THEN "done" ELSE "rename"]
  /\ UNCHANGED <<pc, last, newmap, minNum, files, events>>
  /\ UNCHANGED <<dirs, call>>

\* a rename that removes the source and creates nothing
rename_lost(from, to, fs) == fs \ {from}

\* std::fs::rename: the source is gone, the target exists (replaced when it
\* existed)
rename(from, to, fs) == (fs \ {from}) \cup {to}

\* handle_deleted_message: rename of the i-th staged attachment
DelRename ==
  /\ pc = "del" /\ cur.phase = "rename"
  /\ LET p == cur.paths[cur.i] IN
     IF p \in files
     THEN /\ files' = rename(p, ArchivePath(p), files)
          /\ cur' = [cur EXCEPT !.phase = "write"]
          /\ UNCHANGED <<pc, last, newmap, minNum, events>>
     ELSE /\ Exit("err_rename")
          /\ UNCHANGED files
  /\ UNCHANGED log
  /\ UNCHANGED <<dirs, call>>

\* handle_deleted_message: the <img> line of the i-th attachment
DelWriteImg ==
  /\ pc = "del" /\ cur.phase = "write"
  /\ log' = Append(log, ImgLine(ArchivePath(cur.paths[cur.i])))
  /\ cur' = [cur EXCEPT !.i = cur.i + 1,
                        !.phase = IF cur.i + 1 > Len(cur.paths) THEN "done" ELSE "rename"]
  /\ UNCHANGED <<pc, last, newmap, minNum, files, events>>
  /\ UNCHANGED <<dirs, call>>

\* A writeln! to the log fails: propagated with `?` out of start
DelWriteFail ==
  /\ pc = "del" /\ cur.phase \in {"hdr", "write"}
  /\ Exit("err_log_write")
  /\ UNCHANGED <<files, log>>
  /\ UNCHANGED <<dirs, call>>

\* handle_deleted_message returned Ok: the row is inserted with the carried paths
DelDone ==
  /\ pc = "del" /\ cur.phase = "done"
  /\ newmap' = Insert(newmap, cur.row, Tracked(cur.new, cur.paths))
  /\ pc' = "rows"
  /\ cur' = NoCur
  /\ UNCHANGED <<last, minNum, files, log, events>>
  /\ UNCHANGED <<dirs, call>>

\* the staged files promoted to the archive instead of removed
UntrackPromote(paths, fs) ==
  (fs \ {paths[i] : i \in 1..Len(paths)})
  \cup {ArchivePath(paths[i]) : i \in {j \in 1..Len(paths) : paths[j] \in fs}}

\* the staged files left in place
UntrackKeep(paths, fs) == fs

\* handle_untracked_message for one row: remove the staged files that exist
Untrack(paths, fs) == fs \ {paths[i] : i \in 1..Len(paths)}

RECURSIVE UntrackAll(_, _)
UntrackAll(map, fs) ==
  IF DOMAIN map = {} THEN fs
  ELSE LET r == CHOOSE x \in DOMAIN map : TRUE
       IN UntrackAll(Remove(map, r), Untrack(map[r].paths, fs))

\* End of the loop over new_messages: the rows left in last_messages are
\* untracked, last_messages is replaced, sleep
EndCycle ==
  /\ pc = "rows"
  /\ files' = UntrackAll(last, files)
  /\ events' = [r \in DOMAIN events \cup DOMAIN last |->
                  IF r \in DOMAIN last THEN Event("untracked", last[r].paths)
                  ELSE events[r]]
  /\ last' = newmap
  /\ newmap' = EmptyMap
  /\ pc' = "poll"
  /\ UNCHANGED <<minNum, log, cur>>
  /\ UNCHANGED <<dirs, call>>

\* The process is terminated by a signal
Kill ==
  /\ Running
  /\ Exit("stopped")
  /\ UNCHANGED <<files, log>>
  /\ UNCHANGED <<dirs, call>>

Next ==
  \/ Startup
  \/ IterMessages
  \/ IterMessagesFail
  \/ \E r \in RowIds : AttachmentQueryFail(r)
  \/ \E r \in RowIds, m \in Message : VisitTracked(r, m)
  \/ \E r \in RowIds, m \in Message, atts \in AttDomain :
       \E outcomes \in [1..Len(atts) -> CopyOutcomes] : VisitNew(r, m, atts, outcomes)
  \/ DelHeader
  \/ DelRename
  \/ DelWriteImg
  \/ DelWriteFail
  \/ DelDone
  \/ EndCycle
  \/ Kill

Spec == Init /\ [][Next]_vars

TypeOK ==
  /\ pc \in {"stopped", "ready", "poll", "rows", "del"} \cup ExitCauses
  /\ DOMAIN last \subseteq RowIds
  /\ DOMAIN newmap \subseteq RowIds
  /\ minNum \in 0..MaxNum
  /\ dirs \subseteq {ATTACHMENTS_DIR, TMP_DIR}

\* ------------------------------------------------- strings (str, String)
\* A string is the sequence of its characters; "é" stands for a character
\* that takes two bytes in UTF-8, every other character takes one.
Utf8Len(c) == IF c = "é" THEN 2 ELSE 1

\* str::len: the length in bytes (one per character, one more for each
\* two-byte character)
ByteLen(s) == Len(s) + Cardinality({i \in 1..Len(s) : Utf8Len(s[i]) = 2})

\* n copies of the character c
Rep(c, n) == [i \in 1..n |-> c]

\* str::get(a..b): the bytes a..b, None when b is past the end or when a or b
\* is not on a character boundary
str_get(s, a, b) ==
  LET ks == {k \in 0..Len(s) : ByteLen(SubSeq(s, 1, k)) = a}
      ke == {k \in 0..Len(s) : ByteLen(SubSeq(s, 1, k)) = b}
  IN IF ks = {} \/ ke = {} \/ a > b
     THEN None
     ELSE Some(SubSeq(s, (CHOOSE k \in ks : TRUE) + 1, CHOOSE k \in ke : TRUE))

\* str::starts_with
starts_with(s, pre) == Len(pre) <= Len(s) /\ SubSeq(s, 1, Len(pre)) = pre

\* Position of the first occurrence of the character c in s, 0 when none
IndexOf(s, c) ==
  IF \E i \in 1..Len(s) : s[i] = c
  THEN CHOOSE i \in 1..Len(s) : s[i] = c /\ \A j \in 1..(i - 1) : s[j] # c
  ELSE 0

\* str::split(c): the first item of the iterator, and the second (an Option)
split_first(s, c) ==
  IF IndexOf(s, c) = 0 THEN s ELSE SubSeq(s, 1, IndexOf(s, c) - 1)
split_second(s, c) ==
  IF IndexOf(s, c) = 0 THEN None
  ELSE Some(split_first(SubSeq(s, IndexOf(s, c) + 1, Len(s)), c))

\* str::replace("p:", ""): every occurrence, left to right
RECURSIVE replace_p(_)
replace_p(s) ==
  IF s = << >> THEN << >>
  ELSE IF starts_with(s, <<"p", ":">>) THEN replace_p(SubSeq(s, 3, Len(s)))
  ELSE <<Head(s)>> \o replace_p(Tail(s))

Digits == {"0", "1", "2", "3", "4", "5", "6", "7", "8", "9"}
DigitValue(c) ==
  CASE c = "0" -> 0 [] c = "1" -> 1 [] c = "2" -> 2 [] c = "3" -> 3
    [] c = "4" -> 4 [] c = "5" -> 5 [] c = "6" -> 6 [] c = "7" -> 7
    [] c = "8" -> 8 [] c = "9" -> 9
RECURSIVE DecimalValue(_)
DecimalValue(s) ==
  IF s = << >> THEN 0
  ELSE 10 * DecimalValue(SubSeq(s, 1, Len(s) - 1)) + DigitValue(s[Len(s)])

\* str::parse::<usize>: an optional "+", then one or more decimal digits (the
\* indexes enumerated below have at most two digits, far from usize::MAX)
parse_usize(s) ==
  LET d == IF s # << >> /\ Head(s) = "+" THEN Tail(s) ELSE s
  IN IF d # << >> /\ \A i \in 1..Len(d) : d[i] \in Digits
     THEN Some(DecimalValue(d))
     ELSE None

\* Option::unwrap_or
unwrap_or(o, dflt) == IF o = None THEN dflt ELSE o[1]

\* ------------------------------------------ Message::clean_associated_guid
\* The byte offsets of the guid in clean_associated_guid
GUID_LEN == 36
BP_START == 3
BP_END == 39

\* Message::clean_associated_guid, g being self.associated_message_guid
clean_associated_guid(g) ==
  IF g = None THEN None
  ELSE LET guid == g[1] IN
       IF starts_with(guid, <<"p", ":">>)
       THEN LET index_str == split_first(guid, "/")
                message_id == split_second(guid, "/")
            IN IF message_id = None THEN None
               ELSE LET id == str_get(message_id[1], 0, GUID_LEN)
                        index == unwrap_or(parse_usize(replace_p(index_str)), 0)
                    IN IF id = None THEN None
                       ELSE Some([index |-> index, guid |-> id[1]])
       ELSE IF starts_with(guid, <<"b", "p", ":">>)
       THEN LET id == str_get(guid, BP_START, BP_END)
            IN IF id = None THEN None ELSE Some([index |-> 0, guid |-> id[1]])
       ELSE LET id == str_get(guid, 0, GUID_LEN)
            IN IF id = None THEN None ELSE Some([index |-> 0, guid |-> id[1]])

\* The associated_message_guid values of the rows: a prefix and a body
GuidPrefixes ==
  { << >>, <<"p", ":">>, <<"b", "p", ":">>,
    <<"p", ":", "1", "/">>, <<"p", ":", "1", "2", "/">>,
    <<"p", ":", "i", "/">>, <<"p", ":", "/">>, <<"p", ":", "+", "1", "/">>,
    <<"p", ":", "1", "p", ":", "/">>, <<"b", "p", ":", "1", "/">> }
GuidBodies ==
  { Rep("A", 0), Rep("A", 9), Rep("A", GUID_LEN - 1), Rep("A", GUID_LEN),
    Rep("A", GUID_LEN + 1),
    Rep("é", 18), Rep("é", GUID_LEN), Rep("A", GUID_LEN - 1) \o <<"é">>,
    Rep("A", 20) \o <<"/">> \o Rep("A", 15),
    Rep("A", GUID_LEN) \o <<"/", "A">> }
GuidInputs ==
  {None} \cup {Some(p \o b) : p \in GuidPrefixes, b \in GuidBodies}

\* A library function is applied to an argument drawn at the start
Input(x) == [fn |-> "input", arg |-> x, ret |-> << >>]
Idle ==
  /\ pc = "stopped" /\ last = EmptyMap /\ newmap = EmptyMap /\ minNum = 0
  /\ files = {} /\ log = << >> /\ cur = NoCur /\ events = EmptyMap /\ dirs = {}
Apply(name, result) ==
  /\ call.fn = "input"
  /\ call' = [fn |-> name, arg |-> call.arg, ret |-> result]
  /\ UNCHANGED <<pc, last, newmap, minNum, files, log, cur, events, dirs>>

InitGuid == Idle /\ call \in {Input(g) : g \in GuidInputs}
CleanAssociatedGuid ==
  Apply("clean_associated_guid", clean_associated_guid(call.arg))
NextGuid == CleanAssociatedGuid
SpecGuid == InitGuid /\ [][NextGuid]_vars

\* ------------------------------------------------------- Message::variant
\* parse_balloon_bundle_id, the bundle id given as the list of its parts
\* between ':': the only part, or the third part, or None
parse_balloon_bundle_id(b) ==
  IF b = None THEN None
  ELSE IF Len(b[1]) = 1 THEN Some(b[1][1])
  ELSE IF Len(b[1]) >= 3 THEN Some(b[1][3])
  ELSE None

\* The CustomBalloon of a parsed bundle id
CustomBalloon(id) ==
  CASE id = "com.apple.messages.URLBalloonProvider" -> "URL"
    [] id = "com.apple.Handwriting.HandwritingProvider" -> "Handwriting"
    [] id = "com.apple.DigitalTouchBalloonProvider" -> "DigitalTouch"
    [] id = "com.apple.PassbookUIService.PeerPaymentMessagesExtension" -> "ApplePay"
    [] id = "com.apple.ActivityMessagesApp.MessagesExtension" -> "Fitness"
    [] id = "com.apple.mobileslideshow.PhotosMessagesApp" -> "Slideshow"
    [] id = "com.apple.SafetyMonitorApp.SafetyMonitorMessages" -> "CheckIn"
    [] id = "com.apple.findmy.FindMyMessagesApp" -> "FindMy"
    [] OTHER -> "Application"

\* Message::tapback_index
tapback_index(m) ==
  IF clean_associated_guid(m.associated_message_guid) = None THEN 0
  ELSE clean_associated_guid(m.associated_message_guid)[1].index

\* A Variant: its kind and, where the kind has them, the balloon, the tapback
\* index, action and kind, and the unknown code
Variant(kind, balloon, index, action, tapback, code) ==
  [kind |-> kind, balloon |-> balloon, index |-> index, action |-> action,
   tapback |-> tapback, code |-> code]
Plain(kind) == Variant(kind, "", 0, "", "", 0)

\* The Tapback of the codes 2000 + k and 3000 + k, k = 0..7
Tapbacks ==
  <<"Loved", "Liked", "Disliked", "Laughed", "Emphasized", "Questioned",
    "Emoji", "Sticker">>

\* The match on associated_message_type in variant
variant_associated(m, t) ==
  IF t \in {0, 2, 3}
  THEN (IF parse_balloon_bundle_id(m.balloon_bundle_id) = None
        THEN Plain("Normal")
        ELSE Variant("App",
               CustomBalloon(parse_balloon_bundle_id(m.balloon_bundle_id)[1]),
               0, "", "", 0))
  ELSE IF t = 1000
  THEN Variant("Tapback", "", tapback_index(m), "Added", "Sticker", 0)
  ELSE IF t \in 2000..2007
  THEN Variant("Tapback", "", tapback_index(m), "Added", Tapbacks[t - 2000 + 1], 0)
  ELSE IF t \in 3000..3007
  THEN Variant("Tapback", "", tapback_index(m), "Removed", Tapbacks[t - 3000 + 1], 0)
  ELSE Variant("Unknown", "", 0, "", "", t)

\* variant with the SharePlay test ahead of the associated type
variant_shareplay_first(m) ==
  IF m.date_edited # 0 THEN Plain("Edited")
  ELSE IF m.item_type = 6 THEN Plain("SharePlay")
  ELSE IF m.associated_message_type # None
  THEN variant_associated(m, m.associated_message_type[1])
  ELSE Plain("Normal")

\* Message::variant
variant(m) ==
  IF m.date_edited # 0 THEN Plain("Edited")
  ELSE IF m.associated_message_type # None
  THEN variant_associated(m, m.associated_message_type[1])
  ELSE IF m.item_type = 6 THEN Plain("SharePlay")
  ELSE Plain("Normal")

\* The fields of the rows variant reads
AssociatedTypes ==
  {-1, 0, 1, 2, 3, 4, 6, 999, 1000, 1001, 1999, 2008, 2999, 3008, 4000}
  \cup 2000..2007 \cup 3000..3007
BundleIds ==
  { None,
    Some(<<"com.apple.messages.URLBalloonProvider">>),
    Some(<<"com.apple.messages.MSMessageExtensionBalloonPlugin", "XXX",
           "com.apple.findmy.FindMyMessagesApp">>),
    Some(<<"com.apple.messages.MSMessageExtensionBalloonPlugin", "XXX",
           "com.example.app">>),
    Some(<<"com.apple.messages.MSMessageExtensionBalloonPlugin", "XXX">>) }
VariantInputs ==
  [ date_edited : {0, 1, 674530231},
    associated_message_type : {None} \cup {Some(t) : t \in AssociatedTypes},
    item_type : {0, 1, 6},
    balloon_bundle_id : BundleIds,
    associated_message_guid :
      {None, Some(<<"p", ":", "1", "/">> \o Rep("A", GUID_LEN))} ]

InitVariant == Idle /\ call \in {Input(m) : m \in VariantInputs}
VariantOf == Apply("variant", variant(call.arg))
NextVariant == VariantOf
SpecVariant == InitVariant /\ [][NextVariant]_vars

\* ------------------------------------------------------ sanitize_filename
\* FILENAME_DISALLOWED_CHARS
FILENAME_DISALLOWED_CHARS == {"*", "\"", "/", "\\", "<", ">", ":", "|", "?"}
\* FILENAME_REPLACEMENT_CHAR
FILENAME_REPLACEMENT_CHAR == "_"
\* char::is_control over the characters used here
ControlChars == {"\n", "\t"}
is_control(c) == c \in ControlChars

\* sanitize_filename without the test for control characters
sanitize_filename_keep_control(filename) ==
  [i \in 1..Len(filename) |->
     IF filename[i] \in FILENAME_DISALLOWED_CHARS
     THEN FILENAME_REPLACEMENT_CHAR ELSE filename[i]]

\* sanitize_filename: chars().map(..).collect()
sanitize_filename(filename) ==
  [i \in 1..Len(filename) |->
     IF is_control(filename[i]) \/ filename[i] \in FILENAME_DISALLOWED_CHARS
     THEN FILENAME_REPLACEMENT_CHAR ELSE filename[i]]

\* The characters of the file names
FilenameChars ==
  FILENAME_DISALLOWED_CHARS \cup ControlChars \cup {"a", "_", ".", "é"}
SeqsUpTo(S, n) == UNION {[1..k -> S] : k \in 0..n}

InitSanitize == Idle /\ call \in {Input(f) : f \in SeqsUpTo(FilenameChars, MaxNameLen)}
SanitizeFilename == Apply("sanitize_filename", sanitize_filename(call.arg))
NextSanitize == SanitizeFilename
SpecSanitize == InitSanitize /\ [][NextSanitize]_vars

\* ------------------------------------------------------- Config::filename
MAX_LENGTH == 235

\* A String result, or a panic
Ok(s) == [out |-> s, panicked |-> FALSE]
Panic == [out |-> << >>, panicked |-> TRUE]

\* format!("{}", n) of a non-negative integer
RECURSIVE ToDecimal(_)
ToDecimal(n) ==
  LET d == <<"0", "1", "2", "3", "4", "5", "6", "7", "8", "9">>[(n % 10) + 1]
  IN IF n < 10 THEN <<d>> ELSE ToDecimal(n \div 10) \o <<d>>

\* &s[..n]: panics when n is past the end or inside a character
slice_to(s, n) ==
  IF str_get(s, 0, n) = None THEN Panic ELSE Ok(str_get(s, 0, n)[1])

\* String::replace_range(start.., with)
replace_range_from(s, start, with) ==
  IF str_get(s, 0, start) = None THEN Panic
  ELSE Ok(str_get(s, 0, start)[1] \o with)

\* format!(", and {} others", n)
AndOthers(n) ==
  <<",", " ", "a", "n", "d", " ">> \o ToDecimal(n)
    \o <<" ", "o", "t", "h", "e", "r", "s">>

Min(a, b) == IF a < b THEN a ELSE b

\* Config::filename_from_participants: the loop from the i-th participant on,
\* names being the labels `who` gives for the participants in set order
RECURSIVE filename_from_participants(_, _, _, _)
filename_from_participants(names, i, out_s, added) ==
  IF i > Len(names) THEN Ok(out_s)
  ELSE LET participant == names[i] IN
       IF ByteLen(participant) + ByteLen(out_s) < MAX_LENGTH
       THEN filename_from_participants(names, i + 1,
              (IF out_s # << >> THEN out_s \o <<",", " ">> ELSE out_s)
                \o participant,
              added + 1)
       ELSE LET extra == AndOthers(Len(names) - added) IN
            IF ByteLen(extra) + ByteLen(out_s) >= MAX_LENGTH
            THEN replace_range_from(out_s, MAX_LENGTH - ByteLen(extra), extra)
            ELSE IF out_s = << >> THEN slice_to(participant, MAX_LENGTH)
            ELSE Ok(out_s \o extra)

\* Chat::display_name: None for an empty name
display_name(chat) ==
  IF chat.display_name # None /\ chat.display_name[1] # << >>
  THEN chat.display_name ELSE None

\* Config::filename
filename(chat) ==
  LET built ==
        IF display_name(chat) # None
        THEN LET name == display_name(chat)[1]
                 cut == slice_to(name, Min(MAX_LENGTH, ByteLen(name)))
             IN IF cut.panicked THEN Panic
                ELSE Ok(cut.out \o <<" ", "-", " ">> \o ToDecimal(chat.rowid))
        ELSE IF chat.participants # None
        THEN filename_from_participants(chat.participants[1], 1, << >>, 0)
        ELSE Ok(chat.chat_identifier)
  IN IF built.panicked THEN Panic ELSE Ok(sanitize_filename(built.out))

\* The chats: display names, row ids and participant labels around the
\* budget of MAX_LENGTH bytes
DisplayNames ==
  { None, Some(<< >>), Some(<<"a", "/", "b">>),
    Some(Rep("a", 1)), Some(Rep("a", MAX_LENGTH - 4)),
    Some(Rep("a", MAX_LENGTH - 3)), Some(Rep("a", MAX_LENGTH)),
    Some(Rep("a", MAX_LENGTH + 1)),
    Some(Rep("a", MAX_LENGTH - 1) \o <<"é">>) }
ParticipantLists ==
  { None, Some(<< >>), Some(<<Rep("a", 10)>>),
    Some(<<Rep("a", 10), Rep("b", 20)>>),
    Some(<<Rep("a", 100), Rep("b", MAX_LENGTH - 102)>>),
    Some(<<Rep("a", 100), Rep("b", MAX_LENGTH - 101)>>),
    Some(<<Rep("a", MAX_LENGTH)>>),
    Some(<<Rep("a", MAX_LENGTH - 5), Rep("b", 10)>>),
    Some(<<Rep("a", 200), Rep("b", 50), Rep("c", 5)>>),
    Some(<<Rep("a", MAX_LENGTH - 1) \o <<"é">>>>) }
Chats ==
  [ display_name : DisplayNames, rowid : {1, 10, 101},
    participants : ParticipantLists,
    chat_identifier : {<<"c", "h", "a", "t", "1">>} ]

InitFilename == Idle /\ call \in {Input(c) : c \in Chats}
Filename == Apply("filename", filename(call.arg))
NextFilename == Filename
SpecFilename == InitFilename /\ [][NextFilename]_vars

\* --------------------------------------------------- Message::stream_rows
\* What a database schema may hold: the message tables, the
\* thread_originator_guid column, the columns of COLS added later
\* (date_edited among them), the chat_recoverable_message_join table
SchemaParts ==
  {"message", "thread_originator_guid", "date_edited",
   "chat_recoverable_message_join"}

\* What the head of each query names (query_parts.rs)
HeadNames(head) ==
  CASE head = "IOS_16_NEWER_HEAD" ->
         {"message", "thread_originator_guid", "date_edited",
          "chat_recoverable_message_join"}
    [] head = "IOS_14_15_HEAD" -> {"message", "thread_originator_guid"}
    [] head = "IOS_13_OLDER_HEAD" -> {"message"}

\* The filter statements of generate_filter_statement (ids stands for the
\* joined chat ids)
FILTER_RECOVERABLE == "WHERE (c.chat_id IN (ids) OR d.chat_id IN (ids))"
FILTER_CHAT == "WHERE c.chat_id IN (ids)"

\* Message::generate_filter_statement
generate_filter_statement(context, include_recoverable) ==
  IF context.selected_chat_ids # None
  THEN (IF include_recoverable THEN FILTER_RECOVERABLE ELSE FILTER_CHAT)
  ELSE ""

\* Message::generate_limit_statement
generate_limit_statement(context) ==
  IF context.limit # None THEN "LIMIT n" ELSE ""

\* QueryContext::has_filters
has_filters(context) ==
  \/ context.limit # None
  \/ context.selected_chat_ids # None
  \/ context.selected_handle_ids # None

\* ios_16_newer_query, ios_14_15_query, ios_13_older_query: head, filters,
\* ORDER BY, limit
ios_query(head, filters, limit) ==
  [head |-> head, filters |-> unwrap_or(filters, ""), limit |-> unwrap_or(limit, "")]

\* Connection::prepare: the statement compiles when the schema has what the
\* head names and the filter only uses the aliases the head joins (d is
\* joined by IOS_16_NEWER_HEAD alone)
prepare(db, query) ==
  /\ HeadNames(query.head) \subseteq db
  /\ (query.filters = FILTER_RECOVERABLE) => (query.head = "IOS_16_NEWER_HEAD")

\* a.or_else(b).or_else(c).map_err(..): the first statement that prepares
Prepared(q) == [ok |-> TRUE, query |-> q]
MessagesError == [ok |-> FALSE, query |-> ios_query("", None, None)]
or_else(db, queries) ==
  IF \E i \in 1..Len(queries) : prepare(db, queries[i])
  THEN Prepared(queries[CHOOSE i \in 1..Len(queries) :
                          /\ prepare(db, queries[i])
                          /\ \A j \in 1..(i - 1) : ~prepare(db, queries[j])])
  ELSE MessagesError

\* Message::get
get(db) ==
  or_else(db, << ios_query("IOS_16_NEWER_HEAD", None, None),
                 ios_query("IOS_14_15_HEAD", None, None),
                 ios_query("IOS_13_OLDER_HEAD", None, None) >>)

\* stream_rows probing the oldest schema first
stream_rows_oldest_first(db, context) ==
  IF ~has_filters(context) THEN get(db)
  ELSE or_else(db,
         << ios_query("IOS_13_OLDER_HEAD",
                      Some(generate_filter_statement(context, FALSE)),
                      Some(generate_limit_statement(context))),
            ios_query("IOS_14_15_HEAD",
                      Some(generate_filter_statement(context, FALSE)),
                      Some(generate_limit_statement(context))),
            ios_query("IOS_16_NEWER_HEAD",
                      Some(generate_filter_statement(context, TRUE)),
                      Some(generate_limit_statement(context))) >>)

\* Message::stream_rows
stream_rows(db, context) ==
  IF ~has_filters(context) THEN get(db)
  ELSE or_else(db,
         << ios_query("IOS_16_NEWER_HEAD",
                      Some(generate_filter_statement(context, TRUE)),
                      Some(generate_limit_statement(context))),
            ios_query("IOS_14_15_HEAD",
                      Some(generate_filter_statement(context, FALSE)),
                      Some(generate_limit_statement(context))),
            ios_query("IOS_13_OLDER_HEAD",
                      Some(generate_filter_statement(context, FALSE)),
                      Some(generate_limit_statement(context))) >>)

\* The databases and the query contexts
QueryContexts ==
  [ limit : {None, Some(10)},
    selected_handle_ids : {None, Some({7})},
    selected_chat_ids : {None, Some({}), Some({1, 2, 3})} ]
StreamInputs == [db : SUBSET SchemaParts, context : QueryContexts]

InitStream == Idle /\ call \in {Input(x) : x \in StreamInputs}
StreamRows == Apply("stream_rows", stream_rows(call.arg.db, call.arg.context))
NextStream == StreamRows
SpecStream == InitStream /\ [][NextStream]_vars

\* ------------------------------------ Attachment::resolved_attachment_path
\* DEFAULT_ATTACHMENT_ROOT = "~/Library/Messages/Attachments"
DEFAULT_ATTACHMENT_ROOT ==
  <<"~", "/", "L", "i", "b", "r", "a", "r", "y", "/", "M", "e", "s", "s", "a", "g", "e", "s", "/">>
  \o <<"A", "t", "t", "a", "c", "h", "m", "e", "n", "t", "s">>

\* str::replace(from, to): every occurrence, left to right (from is not empty)
RECURSIVE replace(_, _, _)
replace(s, from, to) ==
  IF s = << >> THEN << >>
  ELSE IF starts_with(s, from)
  THEN to \o replace(SubSeq(s, Len(from) + 1, Len(s)), from, to)
  ELSE <<Head(s)>> \o replace(Tail(s), from, to)

\* s.get(n..): the bytes from n on, None when n is past the end or inside a
\* character
str_get_from(s, n) == str_get(s, n, ByteLen(s))

\* format!("{:x}", Sha1::digest(bytes)): the digest is kept as a term over
\* the hashed string, and its first two hexadecimal digits as a term over
\* the digest
Sha1Hex(bytes) == [sha1 |-> bytes]
HexPrefix(digest) == [get_0_2 |-> digest]

\* home()
Home == <<"/", "U", "s", "e", "r", "s", "/", "u">>

\* Attachment::gen_macos_attachment
gen_macos_attachment(path) ==
  IF starts_with(path, <<"~">>) THEN Home \o Tail(path) ELSE path

\* Attachment::gen_ios_attachment: format!("{}/{directory}/{filename}", ..)
gen_ios_attachment(file_path, db_path) ==
  IF str_get_from(file_path, 2) = None THEN None
  ELSE LET input == str_get_from(file_path, 2)[1]
           hashed == Sha1Hex(<<"M", "e", "d", "i", "a", "D", "o", "m", "a", "i", "n", "-">> \o input)
       IN Some([root |-> db_path, directory |-> HexPrefix(hashed),
                filename |-> hashed])

\* A macOS path in the shape of the iOS result
PlainPath(p) == [root |-> "", directory |-> HexPrefix(Sha1Hex(<< >>)), filename |-> Sha1Hex(p)]

\* Attachment::resolved_attachment_path
resolved_attachment_path(att, platform, db_path, custom_attachment_root) ==
  IF att.filename = None THEN None
  ELSE LET path_str ==
             IF custom_attachment_root # None
             THEN replace(att.filename[1], DEFAULT_ATTACHMENT_ROOT,
                          custom_attachment_root[1])
             ELSE att.filename[1]
       IN IF platform = "macOS"
          THEN Some(PlainPath(gen_macos_attachment(path_str)))
          ELSE gen_ios_attachment(path_str, db_path)

\* The stored file names, backup roots and custom attachment roots
StoredFilenames ==
  { None, Some(<< >>), Some(<<"a">>),
    Some(<<"a", "/", "b", "/", "c", ".", "p", "n", "g">>),
    Some(<<"~", "/", "a", "/", "b", "/", "c", ".", "p", "n", "g">>),
    Some(<<"~", "/", "L", "i", "b", "r", "a", "r", "y", "/", "S", "M", "S", "/", "1", ".", "p", "n", "g">>),
    Some(DEFAULT_ATTACHMENT_ROOT \o <<"/", "0", "a", "/", "1", ".", "p", "n", "g">>),
    Some(<<"é", "/", "a", ".", "p", "n", "g">>) }
CustomRoots ==
  { None, Some(<<"c", "u", "s", "t", "o", "m", "/", "r", "o", "o", "t">>), Some(<<"/", "x">>),
    Some(DEFAULT_ATTACHMENT_ROOT) }
ResolveInputs ==
  [ att : [filename : StoredFilenames], platform : {"macOS", "iOS"},
    db_path : {"fake_root", "/backup"}, custom_attachment_root : CustomRoots ]

InitResolve == Idle /\ call \in {Input(x) : x \in ResolveInputs}
ResolveAttachmentPath ==
  Apply("resolved_attachment_path",
        resolved_attachment_path(call.arg.att, call.arg.platform,
                                 call.arg.db_path, call.arg.custom_attachment_root))
NextResolve == ResolveAttachmentPath
SpecResolve == InitResolve /\ [][NextResolve]_vars

\* ------------------------------------------------ EditedMessage::from_map
\* The payload: `otr` is the number of entries of the dictionary (None when
\* the key is missing), `ec` the entries of the dictionary in order, each a
\* key and its events (None when the value is not an array; the event "bad"
\* is not a dictionary or lacks `d` or `t`), `rp` the elements of the array,
\* each Some(integer) or None when it is not an integer.
EcKeys == {<<"0">>, <<"1">>, <<"0", "1">>, <<"5">>, <<"x">>}
EcEvents == {None, Some(<< >>), Some(<<"e1", "e2">>), Some(<<"bad">>)}
EcEntries == [key : EcKeys, events : EcEvents]
RpValues == {None, Some(-1), Some(0), Some(1), Some(5)}
OtrInputs == {None} \cup {Some(n) : n \in 0..MaxParts}
EcInputs ==
  {None} \cup {Some(e) : e \in
     {x \in SeqsUpTo(EcEntries, MaxEc) :
        \A i, j \in 1..Len(x) : i # j => x[i].key # x[j].key}}
RpInputs == {None} \cup {Some(r) : r \in SeqsUpTo(RpValues, MaxRp)}

\* EditedMessagePart::default
DefaultPart == [status |-> "Original", edit_history |-> << >>]

\* Result<EditedMessage, PlistParseError>
OkParts(parts) == [ok |-> TRUE, parts |-> parts, err |-> ""]
ErrParts(e) == [ok |-> FALSE, parts |-> << >>, err |-> e]

\* Vec::get_mut answering the last part for an index past the end
get_mut_clamped(parts, idx) ==
  IF parts = << >> THEN None
  ELSE IF idx >= 0 /\ idx < Len(parts) THEN Some(idx + 1)
  ELSE Some(Len(parts))

\* edited.parts.get_mut(i64 as usize): the position of the part, None when
\* the index is past the end (a negative i64 becomes an index above 2^63)
get_mut(parts, idx) ==
  IF idx >= 0 /\ idx < Len(parts) THEN Some(idx + 1) ELSE None

\* The loop over the events of one `ec` entry, from the j-th event on
RECURSIVE EcEventsLoop(_, _, _, _)
EcEventsLoop(evs, j, parsed_key, parts) ==
  IF j > Len(evs) THEN OkParts(parts)
  ELSE IF evs[j] = "bad" THEN ErrParts("InvalidTypeIndex")
  ELSE EcEventsLoop(evs, j + 1, parsed_key,
         IF get_mut(parts, parsed_key) = None THEN parts
         ELSE [parts EXCEPT ![get_mut(parts, parsed_key)[1]] =
                 [status |-> "Edited",
                  edit_history |-> Append(@.edit_history, evs[j])]])

\* The loop over the entries of `ec`, from the i-th entry on
RECURSIVE EcLoop(_, _, _)
EcLoop(ec, i, parts) ==
  IF i > Len(ec) THEN OkParts(parts)
  ELSE IF ec[i].events = None THEN ErrParts("InvalidTypeIndex")
  ELSE IF parse_usize(ec[i].key) = None THEN ErrParts("InvalidType")
  ELSE LET done == EcEventsLoop(ec[i].events[1], 1, parse_usize(ec[i].key)[1], parts)
       IN IF done.ok THEN EcLoop(ec, i + 1, done.parts) ELSE done

\* The loop over the elements of `rp`, from the i-th element on
RECURSIVE RpLoop(_, _, _)
RpLoop(rp, i, parts) ==
  IF i > Len(rp) THEN OkParts(parts)
  ELSE IF rp[i] = None THEN ErrParts("InvalidTypeIndex")
  ELSE RpLoop(rp, i + 1,
         IF get_mut(parts, rp[i][1]) = None THEN parts
         ELSE [parts EXCEPT ![get_mut(parts, rp[i][1])[1]].status = "Unsent"])

\* from_map with `rp` applied ahead of `ec`
from_map_rp_first(payload) ==
  IF payload.otr = None THEN ErrParts("MissingKey")
  ELSE LET prefill == [i \in 1..payload.otr[1] |-> DefaultPart]
           unsent == IF payload.rp = None THEN OkParts(prefill)
                     ELSE RpLoop(payload.rp[1], 1, prefill)
       IN IF ~unsent.ok \/ payload.ec = None THEN unsent
          ELSE EcLoop(payload.ec[1], 1, unsent.parts)

\* EditedMessage::from_map
from_map(payload) ==
  IF payload.otr = None THEN ErrParts("MissingKey")
  ELSE LET prefill == [i \in 1..payload.otr[1] |-> DefaultPart]
           edited == IF payload.ec = None THEN OkParts(prefill)
                     ELSE EcLoop(payload.ec[1], 1, prefill)
       IN IF ~edited.ok \/ payload.rp = None THEN edited
          ELSE RpLoop(payload.rp[1], 1, edited.parts)

InitEdited ==
  /\ Idle
  /\ \E otr \in OtrInputs, ec \in EcInputs, rp \in RpInputs :
       call = Input([otr |-> otr, ec |-> ec, rp |-> rp])
FromMap == Apply("from_map", from_map(call.arg))
NextEdited == FromMap
SpecEdited == InitEdited /\ [][NextEdited]_vars

\* ------------------------------------------------ parse_ns_keyed_archiver
\* plist::Value: a string, a Uid, an array of values, or a dictionary, the
\* entries of a dictionary in its iteration order
Str(x) == [t |-> "str", s |-> x]
Uid(i) == [t |-> "uid", n |-> i]
Arr(xs) == [t |-> "arr", items |-> xs]
Dict(es) == [t |-> "dict", d |-> es]
Entry(key, val) == [k |-> key, v |-> val]

\* Frames of follow_uid the thread's stack holds: more than any walk of an
\* acyclic table of MaxObjects entries needs
StackDepth == 2 * MaxObjects + 4

\* Result<Value, PlistParseError>; StackOverflow is the abort of the process
\* when the recursion outgrows the stack
OkValue(v) == [ok |-> TRUE, val |-> v, err |-> << >>]
ErrValue(e) == [ok |-> FALSE, val |-> << >>, err |-> e]
StackOverflow == ErrValue(<<"stack overflow">>)

contains_key(dict, key) == \E i \in 1..Len(dict.d) : dict.d[i].k = key
dict_get(dict, key) ==
  dict.d[CHOOSE i \in 1..Len(dict.d) : dict.d[i].k = key].v
\* Dictionary::insert: a key already present keeps its place and takes the
\* new value
dict_insert(es, key, val) ==
  IF \E i \in 1..Len(es) : es[i].k = key
  THEN [i \in 1..Len(es) |-> IF es[i].k = key THEN Entry(key, val) ELSE es[i]]
  ELSE Append(es, Entry(key, val))

RECURSIVE follow_uid(_, _, _, _, _)
RECURSIVE ArrayLoop(_, _, _, _, _, _)
RECURSIVE KeyedLoop(_, _, _, _, _, _)
RECURSIVE PlainLoop(_, _, _, _, _, _, _)

\* follow_uid, Value::Array arm: the items from the i-th on
ArrayLoop(objects, arr, i, parent, array, depth) ==
  IF i > Len(arr) THEN OkValue(Arr(array))
  ELSE IF arr[i].t # "uid" THEN ArrayLoop(objects, arr, i + 1, parent, array, depth)
  ELSE LET r == follow_uid(objects, arr[i].n, parent, None, depth + 1)
       IN IF r.ok THEN ArrayLoop(objects, arr, i + 1, parent, Append(array, r.val), depth)
          ELSE r

\* follow_uid, NS.keys / NS.objects arm: the pairs from idx on
KeyedLoop(objects, keys, values, idx, dictionary, depth) ==
  IF idx > Len(keys) THEN OkValue(Dict(dictionary))
  ELSE IF keys[idx].t # "uid" THEN ErrValue(<<"InvalidTypeIndex", idx - 1, "uid">>)
  ELSE IF values[idx].t # "uid" THEN ErrValue(<<"InvalidTypeIndex", idx - 1, "uid">>)
  ELSE IF keys[idx].n >= Len(objects) THEN ErrValue(<<"NoValueAtIndex", keys[idx].n>>)
  ELSE IF objects[keys[idx].n + 1].t # "str"
       THEN ErrValue(<<"InvalidTypeIndex", keys[idx].n, "string">>)
  ELSE LET key == objects[keys[idx].n + 1].s
           r == follow_uid(objects, values[idx].n, Some(key), None, depth + 1)
       IN IF r.ok
          THEN KeyedLoop(objects, keys, values, idx + 1,
                         dict_insert(dictionary, key, r.val), depth)
          ELSE r

\* The `{key: value}` arm following `$class` like any other key
PlainLoopKeepClass(objects, root, es, i, parent, dictionary, depth) ==
  IF i > Len(es) THEN OkValue(Dict(dictionary))
  ELSE IF es[i].v.t = "uid"
       THEN LET r == follow_uid(objects, es[i].v.n, Some(es[i].k), None, depth + 1)
            IN IF r.ok
               THEN PlainLoop(objects, root, es, i + 1, parent,
                              dict_insert(dictionary, es[i].k, r.val), depth)
               ELSE r
  ELSE IF parent # None
       THEN LET r == follow_uid(objects, root, parent, Some(es[i].v), depth + 1)
            IN IF r.ok
               THEN PlainLoop(objects, root, es, i + 1, parent,
                              dict_insert(dictionary, parent[1], r.val), depth)
               ELSE r
  ELSE PlainLoop(objects, root, es, i + 1, parent, dictionary, depth)

\* follow_uid, `{key: value}` arm: the entries from the i-th on
PlainLoop(objects, root, es, i, parent, dictionary, depth) ==
  IF i > Len(es) THEN OkValue(Dict(dictionary))
  ELSE IF es[i].k = "$class"
       THEN PlainLoop(objects, root, es, i + 1, parent, dictionary, depth)
  ELSE IF es[i].v.t = "uid"
       THEN LET r == follow_uid(objects, es[i].v.n, Some(es[i].k), None, depth + 1)
            IN IF r.ok
               THEN PlainLoop(objects, root, es, i + 1, parent,
                              dict_insert(dictionary, es[i].k, r.val), depth)
               ELSE r
  ELSE IF parent # None
       THEN LET r == follow_uid(objects, root, parent, Some(es[i].v), depth + 1)
            IN IF r.ok
               THEN PlainLoop(objects, root, es, i + 1, parent,
                              dict_insert(dictionary, parent[1], r.val), depth)
               ELSE r
  ELSE PlainLoop(objects, root, es, i + 1, parent, dictionary, depth)

\* follow_uid; depth is the number of frames of it on the stack
follow_uid(objects, root, parent, item, depth) ==
  IF depth > StackDepth THEN StackOverflow
  ELSE IF item = None /\ root >= Len(objects) THEN ErrValue(<<"NoValueAtIndex", root>>)
  ELSE
    LET it == IF item # None THEN item[1] ELSE objects[root + 1] IN
    IF it.t = "arr" THEN ArrayLoop(objects, it.items, 1, parent, << >>, depth)
    ELSE IF it.t = "dict" THEN
      IF contains_key(it, "NS.relative") THEN
        IF dict_get(it, "NS.relative").t = "uid" /\ parent # None
        THEN LET r == follow_uid(objects, dict_get(it, "NS.relative").n, parent,
                                 None, depth + 1)
             IN IF r.ok THEN OkValue(Dict(<<Entry(parent[1], r.val)>>)) ELSE r
        ELSE OkValue(Dict(<< >>))
      ELSE IF contains_key(it, "NS.keys") /\ contains_key(it, "NS.objects") THEN
        IF dict_get(it, "NS.keys").t # "arr"
        THEN ErrValue(<<"InvalidType", "NS.keys", "array">>)
        ELSE IF dict_get(it, "NS.objects").t # "arr"
        THEN ErrValue(<<"InvalidType", "NS.objects", "array">>)
        ELSE IF Len(dict_get(it, "NS.keys").items) # Len(dict_get(it, "NS.objects").items)
        THEN ErrValue(<<"InvalidDictionarySize", Len(dict_get(it, "NS.keys").items),
                        Len(dict_get(it, "NS.objects").items)>>)
        ELSE KeyedLoop(objects, dict_get(it, "NS.keys").items,
                       dict_get(it, "NS.objects").items, 1, << >>, depth)
      ELSE PlainLoop(objects, root, it.d, 1, parent, << >>, depth)
    ELSE IF it.t = "uid" THEN follow_uid(objects, it.n, None, None, depth + 1)
    ELSE OkValue(it)

\* parse_ns_keyed_archiver of a body with the `$objects` array `objects`
\* (None: no such key) and the Uid `root` under `$top` (None: no `$top`)
parse_ns_keyed_archiver(plist) ==
  IF plist.objects = None THEN ErrValue(<<"MissingKey", "$objects">>)
  ELSE IF plist.root = None THEN ErrValue(<<"MissingKey", "$top">>)
  ELSE follow_uid(plist.objects[1], plist.root[1], None, None, 1)

\* The values of a `$objects` table
KeyedDict(keys, values) ==
  Dict(<<Entry("$class", Uid(MaxObjects - 1)), Entry("NS.keys", keys),
         Entry("NS.objects", values)>>)
ObjectValues ==
  {Str("$class"), Str("k")}
  \cup {Uid(i) : i \in 0..MaxObjects}
  \cup {Arr(<<Uid(i)>>) : i \in 0..(MaxObjects - 1)}
  \cup {Arr(<< >>), Arr(<<Uid(1), Str("k")>>)}
  \cup {Dict(<<Entry("$class", Uid(MaxObjects - 1)), Entry("a", Uid(i))>>) :
          i \in 0..(MaxObjects - 1)}
  \cup {Dict(<<Entry("$class", Str("k")), Entry("a", Str("k"))>>),
        Dict(<<Entry("a", Arr(<<Uid(1)>>))>>)}
  \cup {Dict(<<Entry("NS.relative", Uid(i))>>) : i \in 1..2}
  \cup {KeyedDict(Arr(<<Uid(1)>>), Arr(<<Uid(2)>>)),
        KeyedDict(Arr(<<Uid(2)>>), Arr(<<Uid(1)>>)),
        KeyedDict(Arr(<<Uid(1)>>), Arr(<<Uid(0)>>)),
        KeyedDict(Arr(<<Uid(1)>>), Arr(<< >>)),
        KeyedDict(Arr(<<Uid(1), Uid(1)>>), Arr(<<Uid(2)>>)),
        KeyedDict(Str("k"), Arr(<<Uid(2)>>)),
        Dict(<<Entry("NS.relative", Uid(1)), Entry("NS.keys", Arr(<<Uid(1)>>)),
               Entry("NS.objects", Arr(<< >>))>>)}
ObjectTables == [1..MaxObjects -> ObjectValues]
RootInputs == {None, Some(0), Some(MaxObjects)}

InitArchiver ==
  /\ Idle
  /\ \E objects \in {None} \cup {Some(o) : o \in ObjectTables}, root \in RootInputs :
       call = Input([objects |-> objects, root |-> root])
ParseNsKeyedArchiver ==
  Apply("parse_ns_keyed_archiver", parse_ns_keyed_archiver(call.arg))
NextArchiver == ParseNsKeyedArchiver
SpecArchiver == InitArchiver /\ [][NextArchiver]_vars

\* ------------------------------------- handle_deleted_message, text line
\* The stored messages handle_deleted_message is called with
StoredTexts == {None, Some(""), Some(" "), Some("  "), Some("a"), Some("Hello")}
StoredParts == {None} \cup {Some(ps) : ps \in SeqsUpTo(EditStatus, MaxParts)}
StoredMessages == {Msg(ps, t) : ps \in StoredParts, t \in StoredTexts}

InitText == Idle /\ call \in {Input(m) : m \in StoredMessages}
WriteHeader == Apply("handle_deleted_message", HeaderLines(call.arg))
NextText == WriteHeader
SpecText == InitText /\ [][NextText]_vars

\* ---------------------------------------------- Message::generate_text
\* The attributedBody column: None when the blob cannot be opened, else what
\* the two parsers make of it: `nsstring` is the first component of the
\* typedstream when it parses and starts with an NSString, `legacy` the result
\* of streamtyped::parse (None for an Err)
Body(nsstring, legacy) == [nsstring |-> nsstring, legacy |-> legacy]
AttributedBodies ==
  {None, Some(Body(Some("Hi"), None)), Some(Body(None, Some("Hi"))),
   Some(Body(None, None))}
\* The message_summary_info column: None when it is NULL or no plist, else
\* the payload: Deleted.plist, an edited part, an edited and an unsent part,
\* no part at all, and a payload without `otr`
SummaryInfos ==
  {None,
   Some([otr |-> Some(1), ec |-> None, rp |-> Some(<<Some(0)>>)]),
   Some([otr |-> Some(1), rp |-> None,
         ec |-> Some(<<[key |-> <<"0">>, events |-> Some(<<"e1">>)]>>)]),
   Some([otr |-> Some(2), rp |-> Some(<<Some(1)>>),
         ec |-> Some(<<[key |-> <<"0">>, events |-> Some(<<"e1">>)]>>)]),
   Some([otr |-> Some(0), ec |-> None, rp |-> None]),
   Some([otr |-> None, ec |-> None, rp |-> None])}
\* A row of the message table as Message::from_row leaves it
MessageRows ==
  [text : {None, Some("Hello")}, date_edited : {0, 1},
   attributedBody : AttributedBodies, message_summary_info : SummaryInfos]

\* Message::is_edited
is_edited(row) == row.date_edited # 0

\* The assignment to self.edited_parts in generate_text
decode_edited_parts(row) ==
  IF ~is_edited(row) \/ row.message_summary_info = None THEN None
  ELSE LET edited == from_map(row.message_summary_info[1])
       IN IF edited.ok
          THEN Some([i \in 1..Len(edited.parts) |-> edited.parts[i].status])
          ELSE None

\* Message::generate_text: the message afterwards and the result
generate_text(row) ==
  LET body == row.attributedBody
      text == IF body = None THEN row.text
              ELSE IF body[1].nsstring # None THEN body[1].nsstring
              ELSE body[1].legacy
  IN IF body # None /\ body[1].nsstring = None /\ body[1].legacy = None
     THEN [msg |-> Msg(None, None), result |-> "StreamTypedParseError"]
     ELSE [msg |-> Msg(decode_edited_parts(row), text),
           result |-> IF text # None THEN "Ok" ELSE "NoText"]

InitGenerate ==
  /\ Idle
  /\ \E a \in MessageRows, b \in MessageRows : call = Input(<<a, b>>)
GenerateText ==
  Apply("generate_text", <<generate_text(call.arg[1]), generate_text(call.arg[2])>>)
NextGenerate == GenerateText
SpecGenerate == InitGenerate /\ [][NextGenerate]_vars

\* ------------------------------------------- one run over a two-row window
\* A window of two rows watched by one run of the program: the process is
\* started once and neither killed nor restarted.
TwoRows == {101, 102}
WindowMessages == {Msg(None, Some("Hello")), Msg(Some(<<"Unsent">>), None)}

StartOnce == pc = "stopped" /\ Startup

NextWindow ==
  \/ StartOnce
  \/ IterMessages
  \/ \E r \in TwoRows, m \in WindowMessages : VisitTracked(r, m)
  \/ \E r \in TwoRows, m \in WindowMessages, atts \in AttDomain :
       \E outcomes \in [1..Len(atts) -> CopyOutcomes] : VisitNew(r, m, atts, outcomes)
  \/ DelHeader
  \/ DelRename
  \/ DelWriteImg
  \/ DelDone
  \/ EndCycle

SpecWindow == Init /\ [][NextWindow]_vars

\* ------------------------------------------- one polling cycle, two orders
\* handle_deleted_message: the loop over the staged attachments from the
\* i-th on; err is the Err of rename leaving through `?`
RECURSIVE move_attachments(_, _, _, _)
move_attachments(paths, i, fs, lg) ==
  IF i > Len(paths) THEN [files |-> fs, log |-> lg, err |-> FALSE]
  ELSE IF paths[i] \notin fs THEN [files |-> fs, log |-> lg, err |-> TRUE]
  ELSE move_attachments(paths, i + 1, rename(paths[i], ArchivePath(paths[i]), fs),
                        Append(lg, ImgLine(ArchivePath(paths[i]))))

\* Config::handle_deleted_message
handle_deleted_message(old, paths, fs, lg) ==
  move_attachments(paths, 1, fs, lg \o HeaderLines(old))

\* The locals of start inside the loop; exit is "" while start is running
CycleState(l, n, fs) ==
  [last |-> l, newmap |-> EmptyMap, minNum |-> n, files |-> fs, log |-> << >>,
   events |-> EmptyMap, exit |-> ""]

\* A row of the snapshot with its attachments and what copying them meets
SnapshotRow(id, m, atts, outcomes) ==
  [id |-> id, msg |-> m, atts |-> atts, outcomes |-> outcomes]

\* The body of the loop over new_messages for one row
loop_body(st, row) ==
  IF st.exit # "" THEN st
  ELSE IF row.id \in DOMAIN st.last
  THEN LET old == st.last[row.id]
           rest == Remove(st.last, row.id)
       IN IF IsDeletion(row.msg, old.msg)
          THEN LET d == handle_deleted_message(old.msg, old.paths, st.files, st.log)
                   ev == Insert(st.events, row.id, Event("deleted", old.paths))
               IN IF d.err
                  THEN [st EXCEPT !.last = rest, !.files = d.files, !.log = d.log,
                                  !.events = ev, !.exit = "err_rename"]
                  ELSE [st EXCEPT !.last = rest, !.files = d.files, !.log = d.log,
                                  !.events = ev,
                                  !.newmap = Insert(st.newmap, row.id,
                                                    Tracked(row.msg, old.paths))]
          ELSE [st EXCEPT !.last = rest,
                          !.newmap = Insert(st.newmap, row.id, Tracked(row.msg, old.paths))]
  ELSE LET res == IF Len(row.atts) > 0
                  THEN save_attachments_locally(row.atts, row.outcomes, 1, st.minNum,
                                                << >>, st.files)
                  ELSE [dests |-> << >>, min |-> st.minNum, files |-> st.files,
                        panicked |-> FALSE]
       IN IF res.panicked
          THEN [st EXCEPT !.files = res.files, !.exit = "panic_attachment"]
          ELSE [st EXCEPT !.files = res.files, !.minNum = res.min,
                          !.newmap = Insert(st.newmap, row.id, Tracked(row.msg, res.dests))]

RECURSIVE visit_rows(_, _)
visit_rows(st, rows) ==
  IF rows = << >> THEN st ELSE visit_rows(loop_body(st, Head(rows)), Tail(rows))

\* One pass of the loop of start over the rows in the order given
poll_cycle(st, rows) ==
  LET end == visit_rows(st, rows)
  IN IF end.exit # "" THEN end
     ELSE [end EXCEPT !.files = UntrackAll(end.last, end.files),
                      !.events = [r \in DOMAIN end.events \cup DOMAIN end.last |->
                                    IF r \in DOMAIN end.last
                                    THEN Event("untracked", end.last[r].paths)
                                    ELSE end.events[r]],
                      !.last = end.newmap,
                      !.newmap = EmptyMap]

\* The states a cycle starts in: nothing tracked; row 101 tracked with a
\* staged file; the same after a failed copy; both rows tracked
CycleStarts ==
  { CycleState(EmptyMap, 0, {}),
    CycleState(101 :> Tracked(Msg(None, Some("Hello")), <<Path(TMP_DIR, 0, "jpg")>>),
               1, {Path(TMP_DIR, 0, "jpg")}),
    CycleState(101 :> Tracked(Msg(None, Some("Hello")), <<Path(TMP_DIR, 0, "jpg")>>),
               1, {}),
    CycleState(101 :> Tracked(Msg(None, Some("Hello")), <<Path(TMP_DIR, 0, "jpg")>>)
               @@ 102 :> Tracked(Msg(None, Some("Hello")), <<Path(TMP_DIR, 1, "")>>),
               2, {Path(TMP_DIR, 0, "jpg"), Path(TMP_DIR, 1, "")}) }
\* What iter_messages returns for one row: nothing, or the row
RowReads(id) ==
  {None} \cup
  UNION {{Some(SnapshotRow(id, m, atts, outcomes)) :
            m \in WindowMessages, outcomes \in [1..Len(atts) -> CopyOutcomes]} :
         atts \in AttDomain}
Snapshots == {<<a, b>> : a \in RowReads(101), b \in RowReads(102)}

InitCycle ==
  /\ Idle
  /\ \E st \in CycleStarts, snap \in Snapshots :
       call = Input([start |-> st, rows |-> snap[1] \o snap[2]])
\* The cycle run over the rows in the one order and in the other
Reverse(s) == [i \in 1..Len(s) |-> s[Len(s) + 1 - i]]
PollCycle ==
  Apply("poll_cycle", <<poll_cycle(call.arg.start, call.arg.rows),
                        poll_cycle(call.arg.start, Reverse(call.arg.rows))>>)
NextCycle == PollCycle
SpecCycle == InitCycle /\ [][NextCycle]_vars

\* ================================================================ claims

Archive(fs) == {f \in fs : f.dir = ATTACHMENTS_DIR}
Staging(fs) == {f \in fs : f.dir = TMP_DIR}
IsPrefix(s, t) == Len(s) <= Len(t) /\ SubSeq(t, 1, Len(s)) = s
Range(s) == {s[i] : i \in 1..Len(s)}

Parts(m) == IF m.edited_parts = None THEN << >> ELSE m.edited_parts[1]
HasUnsentPart(m) == \E i \in 1..Len(Parts(m)) : Parts(m)[i] = "Unsent"
EveryPartUnsent(m) ==
  m.edited_parts # None /\ \A i \in 1..Len(Parts(m)) : Parts(m)[i] = "Unsent"

\* A step of the loop body that visits row r, which is in last_messages
VisitsTracked(r) ==
  /\ pc = "rows" /\ pc' \in {"rows", "del"}
  /\ r \in DOMAIN last /\ r \notin DOMAIN last'
\* The message read for row r in that step
Visited(r) == IF pc' = "del" THEN cur'.new ELSE newmap'[r].msg
\* handle_deleted_message is called for row r in that step
EmitsDeletion(r) ==
  /\ pc' = "del" /\ cur'.row = r
  /\ r \in DOMAIN events' /\ events'[r].kind = "deleted"
\* The end of a cycle: the rows left in last_messages are untracked
EndsCycle == pc = "rows" /\ pc' = "poll"

\* The lines of the record handle_deleted_message is writing
RecordStart(l) == CHOOSE i \in 1..Len(l) :
                    l[i].kind = "h2" /\ \A j \in (i + 1)..Len(l) : l[j].kind # "h2"
CurrentRecord == SubSeq(log, RecordStart(log), Len(log))
TextLines(rec) == {i \in 1..Len(rec) : rec[i].kind = "text"}
ImgPaths(rec) ==
  LET RECURSIVE imgs(_)
      imgs(i) == IF i > Len(rec) THEN << >>
                 ELSE (IF rec[i].kind = "img" THEN <<rec[i].path>> ELSE << >>)
                      \o imgs(i + 1)
  IN imgs(1)

\* C1: for a row in both last and the new snapshot, a deletion event is
\* emitted if and only if the new message is fully unsent and the stored one
\* was not.
C1_DeletionIff ==
  [][\A r \in RowIds :
       VisitsTracked(r) =>
         (EmitsDeletion(r) <=>
            (is_fully_unsent(Visited(r)) /\ ~is_fully_unsent(last[r].msg)))]_vars

C1_Witness ==
  /\ pc = "del" /\ cur.phase = "hdr"
  /\ is_fully_unsent(cur.new) /\ ~is_fully_unsent(cur.old)

\* C2: the record of a deletion event is written from the message and the
\* attachment paths stored from the previous snapshot: the handler receives
\* last[r], the text line (when one is written) carries the stored text, a
\* stored text other than a single space is written, and the <img> lines name
\* the stored attachment files in order.
C2_RecordFromStored ==
  [][/\ \A r \in RowIds :
          (VisitsTracked(r) /\ pc' = "del") =>
            (cur'.old = last[r].msg /\ cur'.paths = last[r].paths)
     /\ (pc = "del" /\ pc' = "del" /\ cur.phase # "hdr") =>
          LET rec == SubSeq(log', RecordStart(log'), Len(log')) IN
          /\ \A i \in TextLines(rec) :
               cur.old.text # None /\ rec[i].text = cur.old.text[1]
          /\ (cur.old.text # None /\ cur.old.text[1] # " ") => TextLines(rec) # {}
          /\ LET ps == ImgPaths(rec) IN
             /\ Len(ps) <= Len(cur.paths)
             /\ \A i \in 1..Len(ps) :
                  ps[i].n = cur.paths[i].n /\ ps[i].ext = cur.paths[i].ext]_vars

C2_Witness ==
  /\ pc = "del" /\ cur.phase = "done"
  /\ cur.old.text = Some("Hello") /\ cur.new.text = None
  /\ \E i \in TextLines(CurrentRecord) : CurrentRecord[i].text = "Hello"
  /\ Len(cur.paths) > 0 /\ Len(ImgPaths(CurrentRecord)) = Len(cur.paths)

\* The messages the program holds
HeldMessages ==
  {last[r].msg : r \in DOMAIN last} \cup {newmap[r].msg : r \in DOMAIN newmap}
  \cup (IF pc = "del" THEN {cur.new, cur.old} ELSE {})

\* C3: is_fully_unsent is true if and only if edited_parts is Some, the list
\* of parts is non-empty and every part is Unsent.
C3_FullyUnsentNonEmpty ==
  \A m \in HeldMessages :
    is_fully_unsent(m) <=>
      (/\ m.edited_parts # None
       /\ Len(Parts(m)) > 0
       /\ \A i \in 1..Len(Parts(m)) : Parts(m)[i] = "Unsent")

\* C4 (as claimed): when a message of the previous snapshot is missing from
\* the new one, a record is appended to the log for it.
C4_DisappearedIsRecorded ==
  [][(EndsCycle /\ DOMAIN last # {}) => NumRecords(log') > NumRecords(log)]_vars

\* C4 (amended): when a message of the previous snapshot is missing from the
\* new one, nothing is appended to the log and nothing enters the archive
\* directory; the log and the archive change only inside
\* handle_deleted_message, which is entered only for a transition to fully
\* unsent.
C4_DisappearedNotRecorded ==
  [][/\ EndsCycle => (log' = log /\ Archive(files') = Archive(files))
     /\ (log' # log \/ Archive(files') # Archive(files)) => pc = "del"
     /\ (pc # "del" /\ pc' = "del") =>
          (is_fully_unsent(cur'.new) /\ ~is_fully_unsent(cur'.old))]_vars

C4_Witness ==
  /\ pc = "poll"
  /\ \E r \in DOMAIN events :
       /\ events[r].kind = "untracked"
       /\ Len(events[r].paths) > 0
       /\ Archive(files) = {}
       /\ log = << >>

C6_AnyUnsentPartFires ==
  [][\A r \in RowIds :
       (VisitsTracked(r) /\ ~HasUnsentPart(last[r].msg) /\ HasUnsentPart(Visited(r)))
         => EmitsDeletion(r)]_vars

\* C6 (amended): a deletion event is emitted only when every part of the
\* newly read message is Unsent; a message read with some but not all parts
\* Unsent (parts [Original, Original, Edited, Unsent]) gets no event.
C6_OnlyAllUnsentFires ==
  [][\A r \in RowIds :
       VisitsTracked(r) =>
         /\ EmitsDeletion(r) => EveryPartUnsent(Visited(r))
         /\ (HasUnsentPart(Visited(r)) /\ ~EveryPartUnsent(Visited(r)))
              => ~EmitsDeletion(r)]_vars

C6_Witness ==
  /\ pc = "del"
  /\ cur.old.edited_parts = Some(<<"Original", "Original", "Edited">>)
  /\ cur.new.edited_parts = Some(<<"Unsent">>)

\* C7: a row that fails to decode is skipped and the polling loop goes on:
\* reading the snapshot never ends the program with the decode error.
C7_DecodeFailureSkipsRow ==
  [][(pc \in {"ready", "poll"}) => (pc' # "err_row_decode")]_vars

\* C8: a failed attachment copy of a newly seen message does not stop the
\* loop, and the message is tracked with the paths of the attachments that
\* were copied (every recorded path names a staged file).
C8_CopyFailureTolerated ==
  [][\A r \in RowIds :
       (pc = "rows" /\ r \notin DOMAIN last /\ r \notin DOMAIN newmap) =>
         /\ pc' # "panic_attachment"
         /\ r \in DOMAIN newmap' =>
              \A p \in Range(newmap'[r].paths) : p \in files']_vars

\* C9: the log is append-only: its content before a step is a prefix of its
\* content after the step, restarts included.
C9_LogAppendOnly == [][IsPrefix(log, log')]_vars

C9_Witness == pc = "ready" /\ NumRecords(log) > 0

\* C10: when handle_deleted_message has gone through all the staged
\* attachments of a message, each of them is in the archive directory under
\* its file name, is gone from the staging directory, and has an <img> line
\* with the archive path in the record.
C10_ArchivedAfterDeletion ==
  (pc = "del" /\ cur.phase = "done") =>
    \A i \in 1..Len(cur.paths) :
      LET p == cur.paths[i]
          a == [dir |-> ATTACHMENTS_DIR, n |-> p.n, ext |-> p.ext]
      IN /\ p.dir = TMP_DIR
         /\ a \in files
         /\ p \notin files
         /\ Len(ImgPaths(CurrentRecord)) = Len(cur.paths)
         /\ ImgPaths(CurrentRecord)[i] = a

C10_Witness ==
  /\ pc = "del" /\ cur.phase = "done"
  /\ Len(cur.paths) = 2
  /\ cur.paths[1].ext # cur.paths[2].ext

\* The archive paths the <img> lines of the log name
LoggedPaths(l) == {l[i].path : i \in {j \in 1..Len(l) : l[j].kind = "img"}}

\* C11: the archival rename of a staged attachment never targets a path at
\* which an archived attachment already exists, across cycles and restarts.
C11_NoArchiveOverwrite ==
  [][(pc = "del" /\ cur.phase = "rename" /\ pc' = "del")
       => (ArchivePath(cur.paths[cur.i]) \notin files)]_vars

\* C12: every startup leaves the staging directory existing and empty,
\* whatever a previous run left in it, and leaves the files of the archive
\* directory and the content of the log as they were.
C12_StartupClearsStaging ==
  [][(pc' = "ready") =>
       /\ ~Running
       /\ TMP_DIR \in dirs'
       /\ Staging(files') = {}
       /\ Archive(files') = Archive(files)
       /\ log' = log]_vars

C12_Witness ==
  /\ pc = "ready"
  /\ TMP_DIR \in dirs /\ Staging(files) = {}
  /\ log # << >>
  /\ \E f \in Archive(files) : f \notin LoggedPaths(log)

\* C13: a failed append to the log after an attachment was renamed into the
\* archive does not end the program.
C13_LogWriteFailureNotFatal ==
  [][(pc = "del" /\ cur.phase = "write") => (pc' # "err_log_write")]_vars

\* C14: in a deletion event each attachment is renamed into the archive
\* before its <img> line is appended: after every step every path the log
\* names is a file of the archive, a step moves at most one file into the
\* archive and then appends nothing, and a kill between the rename and the
\* write leaves the files and the log as they are.
C14_RenameBeforeWrite ==
  [][/\ LoggedPaths(log') \subseteq Archive(files')
     /\ LoggedPaths(log') \ LoggedPaths(log) \subseteq Archive(files)
     /\ Cardinality(Archive(files') \ Archive(files)) <= 1
     /\ (Archive(files') # Archive(files)) => (log' = log)
     /\ (pc = "del" /\ cur.phase = "write" /\ pc' = "stopped")
          => (files' = files /\ log' = log)]_vars

C14_Witness ==
  /\ pc = "stopped"
  /\ LoggedPaths(log) # {}
  /\ \E f \in Archive(files) : f \notin LoggedPaths(log)

\* The claim's reading of a guid: 36 characters, none of them a "/"
IsGuid36(b) == Len(b) = GUID_LEN /\ \A i \in 1..Len(b) : b[i] # "/"
\* The part of g after its prefix
GuidPart(g) ==
  IF starts_with(g, <<"p", ":">>)
  THEN (IF IndexOf(g, "/") = 0 THEN << >>
        ELSE SubSeq(g, IndexOf(g, "/") + 1, Len(g)))
  ELSE IF starts_with(g, <<"b", "p", ":">>) THEN SubSeq(g, 4, Len(g))
  ELSE g
\* The k of "p:k/.."
GuidIndexPart(g) == SubSeq(g, 3, IndexOf(g, "/") - 1)

\* C15: clean_associated_guid returns None or (i, s) with s of 36
\* characters; "p:k/<36>" gives (k, <36>) with a non-numeric k read as 0,
\* "bp:<36>" and a bare "<36>" give (0, <36>), and an absent guid or a guid
\* part shorter than 36 characters gives None.
C15_CleanGuidShape ==
  (call.fn = "clean_associated_guid") =>
    LET r == call.ret IN
    /\ (r = None \/ Len(r[1].guid) = GUID_LEN)
    /\ (call.arg = None) => (r = None)
    /\ (call.arg # None) =>
         LET g == call.arg[1] IN
         /\ (starts_with(g, <<"p", ":">>) /\ IndexOf(g, "/") # 0
               /\ IsGuid36(GuidPart(g)))
              => r = Some([index |-> unwrap_or(parse_usize(GuidIndexPart(g)), 0),
                           guid |-> GuidPart(g)])
         /\ (starts_with(g, <<"b", "p", ":">>) /\ IsGuid36(GuidPart(g)))
              => r = Some([index |-> 0, guid |-> GuidPart(g)])
         /\ (~starts_with(g, <<"p", ":">>) /\ ~starts_with(g, <<"b", "p", ":">>)
               /\ IsGuid36(g))
              => r = Some([index |-> 0, guid |-> g])
         /\ (Len(GuidPart(g)) < GUID_LEN) => (r = None)

\* C16: variant classifies with this precedence: a non-zero date_edited
\* gives Edited whatever the other fields; otherwise a present
\* associated_message_type decides (0, 2, 3: Normal or App by the bundle id;
\* 1000 and 2000..2007: Tapback Added; 3000..3007: Tapback Removed; any other
\* code: Unknown(code)), item_type 6 included; only without an
\* associated_message_type does item_type 6 give SharePlay, else Normal.
C16_VariantPrecedence ==
  (call.fn = "variant") =>
    LET m == call.arg
        v == call.ret
    IN /\ (m.date_edited # 0) => (v.kind = "Edited")
       /\ (m.date_edited = 0 /\ m.associated_message_type # None) =>
            LET t == m.associated_message_type[1] IN
            /\ (t \in {0, 2, 3}) =>
                 /\ v.kind \in {"Normal", "App"}
                 /\ (v.kind = "App") <=>
                      (parse_balloon_bundle_id(m.balloon_bundle_id) # None)
            /\ (t = 1000 \/ t \in 2000..2007) =>
                 (v.kind = "Tapback" /\ v.action = "Added")
            /\ (t \in 3000..3007) =>
                 (v.kind = "Tapback" /\ v.action = "Removed")
            /\ (t \notin {0, 2, 3, 1000} \cup 2000..2007 \cup 3000..3007) =>
                 (v.kind = "Unknown" /\ v.code = t)
       /\ (m.date_edited = 0 /\ m.associated_message_type = None) =>
            (v.kind = IF m.item_type = 6 THEN "SharePlay" ELSE "Normal")

C16_Witness ==
  /\ call.fn = "variant"
  /\ call.arg.date_edited = 0
  /\ call.arg.item_type = 6
  /\ call.arg.associated_message_type = Some(3006)
  /\ call.ret.kind = "Tapback" /\ call.ret.action = "Removed"

\* C17: sanitize_filename is idempotent, keeps the number of characters, and
\* its result has no control character and none of * " / \ < > : | ? : each
\* such character is replaced by "_" and every other character is unchanged.
C17_SanitizeIdempotent ==
  (call.fn = "sanitize_filename") =>
    LET f == call.arg
        r == call.ret
    IN /\ sanitize_filename(r) = r
       /\ Len(r) = Len(f)
       /\ \A i \in 1..Len(r) :
            /\ r[i] \notin {"*", "\"", "/", "\\", "<", ">", ":", "|", "?"}
            /\ r[i] \notin ControlChars
            /\ r[i] = IF f[i] \in {"*", "\"", "/", "\\", "<", ">", ":", "|", "?"}
                         \/ f[i] \in ControlChars
                      THEN "_" ELSE f[i]

C17_Witness ==
  /\ call.fn = "sanitize_filename"
  /\ call.arg = <<"a", "/", "\n">>
  /\ call.ret = <<"a", "_", "_">>

\* C18: the file name of a chat is at most 235 characters long, built from
\* the display name and row id or from the participant list, and building it
\* never fails.
C18_FilenameWithinBudget ==
  (call.fn = "filename"
     /\ (display_name(call.arg) # None \/ call.arg.participants # None)) =>
    /\ ~call.ret.panicked
    /\ Len(call.ret.out) <= MAX_LENGTH

\* The schema variants in probing order, and whether a database has what a
\* variant needs
SchemaVariants == <<"IOS_16_NEWER_HEAD", "IOS_14_15_HEAD", "IOS_13_OLDER_HEAD">>
Supports(db, k) ==
  CASE k = 1 -> {"message", "thread_originator_guid", "date_edited",
                 "chat_recoverable_message_join"} \subseteq db
    [] k = 2 -> {"message", "thread_originator_guid"} \subseteq db
    [] k = 3 -> {"message"} \subseteq db

\* C19: the message query is the first of recent, intermediate, legacy that
\* the database can prepare: no later variant is used when an earlier one
\* prepares, an error is returned only when none prepares, and the filter
\* with the recoverable join (d.chat_id) goes with the recent variant only.
C19_FirstPreparedVariant ==
  (call.fn = "stream_rows") =>
    LET db == call.arg.db
        r == call.ret
    IN /\ r.ok <=> (\E k \in 1..3 : Supports(db, k))
       /\ r.ok =>
            \E k \in 1..3 :
              /\ r.query.head = SchemaVariants[k]
              /\ Supports(db, k)
              /\ \A j \in 1..(k - 1) : ~Supports(db, j)
       /\ (r.ok /\ r.query.filters = "WHERE (c.chat_id IN (ids) OR d.chat_id IN (ids))")
            => (r.query.head = "IOS_16_NEWER_HEAD")
       /\ (r.ok /\ call.arg.context.selected_chat_ids # None) =>
            (r.query.filters =
               IF r.query.head = "IOS_16_NEWER_HEAD"
               THEN "WHERE (c.chat_id IN (ids) OR d.chat_id IN (ids))"
               ELSE "WHERE c.chat_id IN (ids)")

C19_Witness ==
  /\ call.fn = "stream_rows"
  /\ call.arg.db = {"message", "thread_originator_guid"}
  /\ call.arg.context.selected_chat_ids = Some({1, 2, 3})
  /\ call.ret.ok
  /\ call.ret.query.head = "IOS_14_15_HEAD"
  /\ call.ret.query.filters = "WHERE c.chat_id IN (ids)"

\* C20: on iOS the resolved path of an attachment with a stored file name
\* (of two characters or more) is <backup root>/<digest[0..2]>/<digest>,
\* digest being the sha1 of "MediaDomain-" followed by the stored file name
\* without its first two characters; a custom attachment root has no effect.
C20_IosPathFromStoredName ==
  (call.fn = "resolved_attachment_path" /\ call.arg.platform = "iOS"
     /\ call.arg.att.filename # None /\ Len(call.arg.att.filename[1]) >= 2) =>
    LET f == call.arg.att.filename[1]
        digest == Sha1Hex(<<"M", "e", "d", "i", "a", "D", "o", "m", "a", "i", "n", "-">> \o SubSeq(f, 3, Len(f)))
    IN call.ret = Some([root |-> call.arg.db_path,
                        directory |-> HexPrefix(digest),
                        filename |-> digest])

\* An `ec` key or an `rp` value that names one of the n parts
KeyInRange(e, n) ==
  parse_usize(e.key) # None => parse_usize(e.key)[1] < n
RpInRange(v, n) == v # None => (v[1] >= 0 /\ v[1] < n)
\* The payload without the `ec` entries and `rp` values that point past the
\* parts
WithoutStrays(p) ==
  LET n == p.otr[1]
      KeepKey(e) == KeyInRange(e, n)
      KeepRp(v) == RpInRange(v, n)
  IN [ otr |-> p.otr,
       ec |-> IF p.ec = None THEN None ELSE Some(SelectSeq(p.ec[1], KeepKey)),
       rp |-> IF p.rp = None THEN None ELSE Some(SelectSeq(p.rp[1], KeepRp)) ]
\* A payload whose entries all have the expected types
WellTyped(p) ==
  /\ p.otr # None
  /\ p.ec # None => \A i \in 1..Len(p.ec[1]) :
       /\ p.ec[1][i].events # None
       /\ parse_usize(p.ec[1][i].key) # None
       /\ \A j \in 1..Len(p.ec[1][i].events[1]) : p.ec[1][i].events[1][j] # "bad"
  /\ p.rp # None => \A i \in 1..Len(p.rp[1]) : p.rp[1][i] # None

\* C21: from_map returns one part per entry of `otr`; an `rp` value or an
\* `ec` key that points past the parts (a negative `rp` value included) is
\* ignored: it raises no error and the parts are those of the payload
\* without it.
C21_StrayIndexIgnored ==
  (call.fn = "from_map") =>
    /\ call.ret.ok => (Len(call.ret.parts) = call.arg.otr[1])
    /\ WellTyped(call.arg) => call.ret.ok
    /\ (call.arg.otr # None /\ WellTyped(WithoutStrays(call.arg))
          /\ \A i \in 1..(IF call.arg.ec = None THEN 0 ELSE Len(call.arg.ec[1])) :
               LET e == call.arg.ec[1][i] IN
               KeyInRange(e, call.arg.otr[1]) \/
                 (e.events # None /\ \A j \in 1..Len(e.events[1]) : e.events[1][j] # "bad"))
         => (call.ret = from_map(WithoutStrays(call.arg)))

C21_Witness ==
  /\ call.fn = "from_map"
  /\ call.arg.otr = Some(1)
  /\ call.arg.rp = Some(<<Some(-1), Some(5)>>)
  /\ call.arg.ec = Some(<<[key |-> <<"5">>, events |-> Some(<<"e1", "e2">>)]>>)
  /\ call.ret = OkParts(<<DefaultPart>>)

\* The events of the `ec` entries whose key names part k (0-based), in the
\* order of `ec`
RECURSIVE EventsOf(_, _)
EventsOf(ec, k) ==
  IF ec = << >> THEN << >>
  ELSE (IF parse_usize(Head(ec).key) = Some(k) THEN Head(ec).events[1] ELSE << >>)
       \o EventsOf(Tail(ec), k)

\* C22: in the result of from_map part i is Unsent when i occurs in `rp`,
\* otherwise Edited when `ec` has key i with at least one event, otherwise
\* Original; a part in both is Unsent and keeps its history, and the history
\* of a part is the events of its `ec` key in order.
C22_PartStatus ==
  (call.fn = "from_map" /\ call.ret.ok) =>
    LET ec == IF call.arg.ec = None THEN << >> ELSE call.arg.ec[1]
        rp == IF call.arg.rp = None THEN << >> ELSE call.arg.rp[1]
    IN \A i \in 1..Len(call.ret.parts) :
         /\ call.ret.parts[i].edit_history = EventsOf(ec, i - 1)
         /\ call.ret.parts[i].status =
              IF \E j \in 1..Len(rp) : rp[j] = Some(i - 1) THEN "Unsent"
              ELSE IF EventsOf(ec, i - 1) # << >> THEN "Edited"
              ELSE "Original"

C22_Witness ==
  /\ call.fn = "from_map" /\ call.ret.ok
  /\ call.arg.otr = Some(2)
  /\ call.arg.rp = Some(<<Some(1)>>)
  /\ call.arg.ec = Some(<<[key |-> <<"1">>, events |-> Some(<<"e1", "e2">>)],
                          [key |-> <<"0">>, events |-> Some(<<"e1", "e2">>)]>>)
  /\ call.ret.parts[1] = [status |-> "Edited", edit_history |-> <<"e1", "e2">>]
  /\ call.ret.parts[2] = [status |-> "Unsent", edit_history |-> <<"e1", "e2">>]

\* A `$class` key, a Uid value, somewhere in a tree
RECURSIVE HasClassKey(_)
HasClassKey(v) ==
  \/ v.t = "arr" /\ \E i \in 1..Len(v.items) : HasClassKey(v.items[i])
  \/ v.t = "dict" /\ \E i \in 1..Len(v.d) : v.d[i].k = "$class" \/ HasClassKey(v.d[i].v)
RECURSIVE HasUid(_)
HasUid(v) ==
  \/ v.t = "uid"
  \/ v.t = "arr" /\ \E i \in 1..Len(v.items) : HasUid(v.items[i])
  \/ v.t = "dict" /\ \E i \in 1..Len(v.d) : HasUid(v.d[i].v)

\* An object that is a dictionary with NS.keys and NS.objects arrays
IsKeyed(o) ==
  /\ o.t = "dict" /\ contains_key(o, "NS.keys") /\ contains_key(o, "NS.objects")
  /\ dict_get(o, "NS.keys").t = "arr" /\ dict_get(o, "NS.objects").t = "arr"
SizeMismatch(o) ==
  IsKeyed(o) /\ Len(dict_get(o, "NS.keys").items) # Len(dict_get(o, "NS.objects").items)
\* The table entries a successful walk of the object o goes on to, whatever
\* the parent key
Follows(o) ==
  IF o.t = "uid" THEN {o.n}
  ELSE IF o.t = "arr" THEN {o.items[i].n : i \in {j \in 1..Len(o.items) : o.items[j].t = "uid"}}
  ELSE IF o.t # "dict" \/ contains_key(o, "NS.relative") THEN {}
  ELSE IF IsKeyed(o)
       THEN {dict_get(o, "NS.objects").items[i].n :
               i \in {j \in 1..Len(dict_get(o, "NS.objects").items) :
                        dict_get(o, "NS.objects").items[j].t = "uid"}}
  ELSE {o.d[i].v.n : i \in {j \in 1..Len(o.d) : o.d[j].k # "$class" /\ o.d[j].v.t = "uid"}}
RECURSIVE WalkedFrom(_, _, _)
WalkedFrom(objects, seen, n) ==
  IF n = 0 THEN seen
  ELSE WalkedFrom(objects,
         seen \cup UNION {Follows(objects[i + 1]) : i \in {j \in seen : j < Len(objects)}},
         n - 1)
\* The entries of the table of the archive p that a successful walk visits
Walked(p) ==
  {i \in WalkedFrom(p.objects[1], {p.root[1]}, Len(p.objects[1])) : i < Len(p.objects[1])}
\* The archive p has a keyed dictionary with the string `$class` among its keys
ClassNamedKey(p) ==
  \E i, j \in 1..Len(p.objects[1]) :
    /\ p.objects[1][i] = Str("$class")
    /\ IsKeyed(p.objects[1][j])
    /\ Uid(i - 1) \in Range(dict_get(p.objects[1][j], "NS.keys").items)
Archived == call.fn = "parse_ns_keyed_archiver"
Resolves(p) == p.objects # None /\ p.root # None /\ p.root[1] < Len(p.objects[1])

\* C23 as stated: for every plist whose `$top.root` resolves the returned
\* tree has no `$class` key and no Uid value at any depth, and a keyed
\* dictionary whose NS.keys and NS.objects differ in length makes the walk
\* fail with InvalidDictionarySize(k, v).
C23_NoClassNoUid ==
  (Archived /\ Resolves(call.arg)) =>
    /\ call.ret.ok => (~HasClassKey(call.ret.val) /\ ~HasUid(call.ret.val))
    /\ call.ret.ok => \A i \in Walked(call.arg) : ~SizeMismatch(call.arg.objects[1][i + 1])
    /\ SizeMismatch(call.arg.objects[1][call.arg.root[1] + 1]) =>
         /\ ~call.ret.ok
         /\ call.ret.err[1] = "InvalidDictionarySize"

\* C23: for every plist whose `$top.root` resolves the returned tree has no
\* Uid value at any depth, and it has a `$class` key only when a keyed
\* dictionary of the archive has the string `$class` among its NS.keys; a
\* visited keyed dictionary without NS.relative whose NS.keys and NS.objects
\* differ in length makes the walk fail, with InvalidDictionarySize(k, v)
\* when it is the root object.
C23_NoUidNoArchiveClass ==
  (Archived /\ Resolves(call.arg)) =>
    /\ call.ret.ok => ~HasUid(call.ret.val)
    /\ (call.ret.ok /\ HasClassKey(call.ret.val)) => ClassNamedKey(call.arg)
    /\ call.ret.ok =>
         \A i \in Walked(call.arg) :
           LET o == call.arg.objects[1][i + 1] IN
           SizeMismatch(o) => contains_key(o, "NS.relative")
    /\ LET o == call.arg.objects[1][call.arg.root[1] + 1] IN
       (SizeMismatch(o) /\ ~contains_key(o, "NS.relative")) =>
         call.ret = ErrValue(<<"InvalidDictionarySize", Len(dict_get(o, "NS.keys").items),
                               Len(dict_get(o, "NS.objects").items)>>)

C23_Witness ==
  /\ Archived
  /\ call.arg.root = Some(0) /\ call.arg.objects # None
  /\ call.arg.objects[1][1] = KeyedDict(Arr(<<Uid(1)>>), Arr(<<Uid(2)>>))
  /\ call.arg.objects[1][2] = Str("k")
  /\ call.arg.objects[1][3] = Dict(<<Entry("$class", Uid(MaxObjects - 1)), Entry("a", Uid(1))>>)
  /\ call.ret = OkValue(Dict(<<Entry("k", Dict(<<Entry("a", Str("k"))>>))>>))

\* The kinds of PlistParseError
PlistParseErrors ==
  {"MissingKey", "InvalidType", "NoValueAtIndex", "InvalidTypeIndex", "InvalidDictionarySize"}

\* C30: parse_ns_keyed_archiver ends on every input with a value or with one
\* of the PlistParseError kinds, also when the entries of `$objects` point
\* at each other in a cycle.
C30_EndsWithValueOrError ==
  Archived => (call.ret.ok \/ call.ret.err[1] \in PlistParseErrors)

\* The state of the first cycle after startup: nothing is tracked yet and
\* nothing has been emitted
FirstCycle == pc \in {"ready", "rows"} /\ last = EmptyMap /\ events = EmptyMap
\* A step that emits an event for row r
EmitsEvent(r) ==
  /\ r \in DOMAIN events'
  /\ r \notin DOMAIN events \/ events' # events
  /\ pc = "rows"

C26_TextLineIff ==
  (call.fn = "handle_deleted_message") =>
    ((\E i \in 1..Len(call.ret) : call.ret[i].kind = "text")
       <=> (call.arg.text # None /\ call.arg.text[1] # "" /\ call.arg.text[1] # " "))

\* C25: two rows with the same message_summary_info are classified the same
\* by is_fully_unsent after generate_text, whatever their other columns.
C25_UnsentFromSummaryOnly ==
  (call.fn = "generate_text"
     /\ call.arg[1].message_summary_info = call.arg[2].message_summary_info) =>
    (is_fully_unsent(call.ret[1].msg) <=> is_fully_unsent(call.ret[2].msg))

\* C29: when a deletion event fires, every attachment path stored for the
\* row in last names a file that exists in the staging directory, also when
\* the row was unsent, reverted and is unsent again.
C29_StagedFilesExist ==
  [][\A r \in RowIds :
       (VisitsTracked(r) /\ EmitsDeletion(r)) =>
         \A p \in Range(last[r].paths) : p \in Staging(files)]_vars

\* The rows the program tracks and their staged paths
TrackedPaths(r) ==
  IF r \in DOMAIN newmap THEN newmap[r].paths
  ELSE IF r \in DOMAIN last THEN last[r].paths
  ELSE IF pc = "del" /\ cur.row = r THEN cur.paths
  ELSE << >>
Injective(s) == \A i, j \in 1..Len(s) : i # j => s[i] # s[j]
BaseNames(s) == [i \in 1..Len(s) |-> s[i].n]

\* The staged paths of the tracked rows have distinct base names, all below
\* min_attachment_number
NoSharedStagedPath ==
  /\ \A r \in TwoRows :
       /\ Injective(BaseNames(TrackedPaths(r)))
       /\ \A i \in 1..Len(TrackedPaths(r)) : TrackedPaths(r)[i].n < minNum
  /\ \A r1, r2 \in TwoRows :
       r1 # r2 =>
         {p.n : p \in Range(TrackedPaths(r1))} \cap {p.n : p \in Range(TrackedPaths(r2))} = {}
  /\ Running => \A f \in Staging(files) : f.n < minNum

\* C28: within one run min_attachment_number grows with every attachment
\* handed to staging by at least one, so the attachments staged in the run
\* get distinct base names, all below min_attachment_number, and no two
\* tracked messages share a staged path.
C28_FreshBaseNames ==
  /\ []NoSharedStagedPath
  /\ [][\A r \in TwoRows :
          (pc = "rows" /\ pc' = "rows" /\ r \notin DOMAIN last /\ r \notin DOMAIN newmap
             /\ r \in DOMAIN newmap') =>
            /\ minNum' >= minNum + Len(newmap'[r].paths)
            /\ \A i \in 1..Len(newmap'[r].paths) :
                 /\ newmap'[r].paths[i].n >= minNum
                 /\ newmap'[r].paths[i].n < minNum']_vars

C28_Witness ==
  /\ pc = "rows"
  /\ DOMAIN last = {101} /\ DOMAIN newmap = {102}
  /\ Len(last[101].paths) = 1 /\ Len(newmap[102].paths) = 1
  /\ last[101].paths[1].ext = newmap[102].paths[1].ext
  /\ last[101].paths[1].n < newmap[102].paths[1].n

\* What a cycle leaves behind: the events by row and kind, the tracked map
\* and the files
CycleOutcome(st) ==
  [events |-> {<<r, st.events[r].kind>> : r \in DOMAIN st.events},
   tracked |-> st.last, files |-> st.files]

\* C24: the outcome of a polling cycle does not depend on the order in which
\* the rows of the snapshot are visited: the same deletion and untracked
\* events, the same tracked map with the staged paths of every row, the same
\* files.  Stated for the cycles that run to their end in both orders.
C24_OrderImmaterial ==
  (call.fn = "poll_cycle" /\ call.ret[1].exit = "" /\ call.ret[2].exit = "") =>
    (CycleOutcome(call.ret[1]) = CycleOutcome(call.ret[2]))

====
